---- MODULE Spec2Model ----
(***************************************************************************)
(* The Tendermint light client's ClientState                               *)
(* (crates/ibc/src/clients/ics07_tendermint/client_state.rs): its          *)
(* construction and validation, its wire conversions, its status, and the  *)
(* state transitions it performs on the host's store (initialise,          *)
(* update_state, update_state_on_misbehaviour, update_state_on_upgrade).   *)
(*                                                                         *)
(* Option<T> is a sequence of length 0 (None) or 1 (Some).  Result<T, E>   *)
(* is a record [kind, err, val]: kind "ok" carries val, kind "err" carries *)
(* the error's name, kind "panic" is an abort of the call.                 *)
(***************************************************************************)
EXTENDS Integers, Sequences, FiniteSets, TLC

VARIABLES
    ctx,    \* the host's store and clock (ExecutionContext / ValidationContext)
    last,   \* the last call on the client: its name and how it ended
    call    \* the last evaluation of a pure function: its name, argument and result

vars == <<ctx, last, call>>

----------------------------------------------------------------------------
(* Bounds of the model. *)

\* revision heights run over 1..MaxHeight
MaxHeight == 2
\* the host clock runs over 0..MaxTime
MaxTime == 3

(* Program constants. *)

\* tendermint::chain::id::MAX_LENGTH
MaxChainIdLen == 50
\* the decimal digits of u64::MAX plus the dash: what "-{revision}" can add to a name
MaxRevisionSuffixLen == 21

None == <<>>
Some(x) == <<x>>
IsSome(o) == Len(o) = 1
Unwrap(o) == o[1]

Ok(v) == [kind |-> "ok", err |-> "", val |-> v]
Err(e) == [kind |-> "err", err |-> e, val |-> <<>>]
\* an error that carries the reason the source gives for it
ErrWith(e, reason) == [kind |-> "err", err |-> e, val |-> <<reason>>]
\* an error whose reason names the index of the offending element
ErrAt(e, reason, idx) == [kind |-> "err", err |-> e, val |-> <<reason, idx>>]
Panic(e) == [kind |-> "panic", err |-> e, val |-> <<>>]
IsOk(r) == r.kind = "ok"

Unit == <<>>

----------------------------------------------------------------------------
(* Height: revision number first, then revision height. *)

Height(rn, rh) == [revision_number |-> rn, revision_height |-> rh]

\* Height::new refuses a zero revision height
HeightNew(rn, rh) == IF rh = 0 THEN Err("InvalidHeight") ELSE Ok(Height(rn, rh))

\* Height::min(revision_number): the lowest height of a revision
HeightMin(rn) == Height(rn, 1)

\* the derived Ord of Height
HeightLT(a, b) ==
    \/ a.revision_number < b.revision_number
    \/ a.revision_number = b.revision_number /\ a.revision_height < b.revision_height

HeightLE(a, b) == a = b \/ HeightLT(a, b)

\* core::cmp::max
HeightMax(a, b) == IF HeightLT(b, a) THEN a ELSE b

\* RawHeight -> Height
HeightTryFromRaw(raw) == HeightNew(raw.revision_number, raw.revision_height)

\* Height -> RawHeight
HeightIntoRaw(h) == [revision_number |-> h.revision_number, revision_height |-> h.revision_height]

Revisions == 0..1
Heights == [revision_number : Revisions, revision_height : 1..MaxHeight]
RawHeights == [revision_number : Revisions, revision_height : 0..MaxHeight]

----------------------------------------------------------------------------
(* ChainId: a name, optionally followed by "-{revision number}".  The model *)
(* keeps the length of the name and the revision suffix, which is all the  *)
(* client state reads of it.                                               *)

ChainId(n, hasRev, rev) == [name_len |-> n, has_revision |-> hasRev, revision |-> rev]

\* ChainId::revision_number: 0 for an id without a revision suffix
ChainIdRevisionNumber(id) == IF id.has_revision THEN id.revision ELSE 0

\* the length of the whole identifier (revisions of the model have one digit)
ChainIdLen(id) == IF id.has_revision THEN id.name_len + 2 ELSE id.name_len

Saturating_sub(a, b) == IF a >= b THEN a - b ELSE 0

\* ChainId::validate_length(min, max): an id with a revision suffix is
\* measured by its name, which must leave room for any u64 revision
ChainIdValidateLength(id, min, max) ==
    IF id.has_revision
    THEN IF /\ id.name_len >= Saturating_sub(min, 2)
            /\ id.name_len <= Saturating_sub(max, MaxRevisionSuffixLen)
         THEN Ok(Unit) ELSE Err("InvalidLength")
    ELSE IF ChainIdLen(id) >= min /\ ChainIdLen(id) <= max
         THEN Ok(Unit) ELSE Err("InvalidLength")

\* ChainId::from_str: an empty name is no identifier
ChainIdFromStr(s) ==
    IF s.name_len = 0 THEN Err("InvalidChainId")
    ELSE Ok(ChainId(s.name_len, s.has_revision, IF s.has_revision THEN s.revision ELSE 0))

\* ChainId::to_string
ChainIdToString(id) == [name_len |-> id.name_len, has_revision |-> id.has_revision,
                        revision |-> IF id.has_revision THEN id.revision ELSE 0]

----------------------------------------------------------------------------
(* TrustThreshold *)

TrustThreshold(n, d) == [numerator |-> n, denominator |-> d]

TrustThresholdZERO == TrustThreshold(0, 0)
TrustThresholdONE_THIRD == TrustThreshold(1, 3)

\* TrustThreshold::new: a fraction in [0, 1), or 0/0
TrustThresholdNew(n, d) ==
    IF (n > d) \/ (d = 0 /\ n # 0) \/ (n = d /\ n # 0)
    THEN Err("InvalidTrustThreshold")
    ELSE Ok(TrustThreshold(n, d))

\* tendermint's TrustThresholdFraction::new: a fraction in [1/3, 1)
TendermintTrustThresholdFractionNew(n, d) ==
    IF n >= d THEN Err("InvalidTendermintTrustThreshold")
    ELSE IF d = 0 THEN Err("InvalidTendermintTrustThreshold")
    ELSE IF 3 * n < d THEN Err("InvalidTendermintTrustThreshold")
    ELSE Ok(TrustThreshold(n, d))

----------------------------------------------------------------------------
(* ClientState *)

AllowUpdate(e, m) == [after_expiry |-> e, after_misbehaviour |-> m]

ZERO_DURATION == 0

new_without_validation(chain_id, trust_level, trusting_period, unbonding_period, max_clock_drift, latest_height, proof_specs, upgrade_path, allow_update) ==
    [chain_id |-> chain_id,
     trust_level |-> trust_level,
     trusting_period |-> trusting_period,
     unbonding_period |-> unbonding_period,
     max_clock_drift |-> max_clock_drift,
     latest_height |-> latest_height,
     proof_specs |-> proof_specs,
     upgrade_path |-> upgrade_path,
     allow_update |-> allow_update,
     frozen_height |-> None]

\* key.trim().is_empty(): the model's blank segments are "" and " "
IsBlank(key) == key \in {"", " "}

\* the first blank upgrade-path key, if any
FirstBlank(path) ==
    LET blanks == {i \in 1..Len(path) : IsBlank(path[i])}
    IN  IF blanks = {} THEN 0 ELSE CHOOSE i \in blanks : \A j \in blanks : i <= j

validate_allowing_equal_periods(self) ==
    IF ~IsOk(ChainIdValidateLength(self.chain_id, 3, MaxChainIdLen))
    THEN Err("InvalidLength")
    ELSE IF self.trust_level = TrustThresholdZERO
    THEN ErrWith("InvalidTrustThreshold", "ClientState trust-level cannot be zero")
    ELSE IF ~IsOk(TendermintTrustThresholdFractionNew(self.trust_level.numerator,
                                                      self.trust_level.denominator))
    THEN Err("InvalidTendermintTrustThreshold")
    ELSE IF self.trusting_period <= 0
    THEN ErrWith("InvalidTrustThreshold", "ClientState trusting period must be greater than zero")
    ELSE IF self.unbonding_period <= 0
    THEN ErrWith("InvalidTrustThreshold", "ClientState unbonding period must be greater than zero")
    ELSE IF self.trusting_period > self.unbonding_period
    THEN ErrWith("InvalidTrustThreshold", "ClientState trusting period must be smaller than unbonding period")
    ELSE IF self.max_clock_drift <= 0
    THEN ErrWith("InvalidMaxClockDrift", "ClientState max-clock-drift must be greater than zero")
    ELSE IF self.latest_height.revision_number # ChainIdRevisionNumber(self.chain_id)
    THEN ErrWith("InvalidLatestHeight", "ClientState latest-height revision number must match chain-id version")
    ELSE IF Len(self.proof_specs) = 0
    THEN ErrWith("Validation", "ClientState proof-specs cannot be empty")
    ELSE IF FirstBlank(self.upgrade_path) # 0
    THEN ErrAt("Validation", "ClientState upgrade-path key at index cannot be empty", FirstBlank(self.upgrade_path) - 1)
    ELSE Ok(Unit)

validate_checking_clock_drift_early(self) ==
    IF ~IsOk(ChainIdValidateLength(self.chain_id, 3, MaxChainIdLen))
    THEN Err("InvalidLength")
    ELSE IF self.trust_level = TrustThresholdZERO
    THEN ErrWith("InvalidTrustThreshold", "ClientState trust-level cannot be zero")
    ELSE IF ~IsOk(TendermintTrustThresholdFractionNew(self.trust_level.numerator,
                                                      self.trust_level.denominator))
    THEN Err("InvalidTendermintTrustThreshold")
    ELSE IF self.trusting_period <= 0
    THEN ErrWith("InvalidTrustThreshold", "ClientState trusting period must be greater than zero")
    ELSE IF self.unbonding_period <= 0
    THEN ErrWith("InvalidTrustThreshold", "ClientState unbonding period must be greater than zero")
    ELSE IF self.max_clock_drift <= 0
    THEN ErrWith("InvalidMaxClockDrift", "ClientState max-clock-drift must be greater than zero")
    ELSE IF self.trusting_period >= self.unbonding_period
    THEN ErrWith("InvalidTrustThreshold", "ClientState trusting period must be smaller than unbonding period")
    ELSE IF self.latest_height.revision_number # ChainIdRevisionNumber(self.chain_id)
    THEN ErrWith("InvalidLatestHeight", "ClientState latest-height revision number must match chain-id version")
    ELSE IF Len(self.proof_specs) = 0
    THEN ErrWith("Validation", "ClientState proof-specs cannot be empty")
    ELSE IF FirstBlank(self.upgrade_path) # 0
    THEN ErrAt("Validation", "ClientState upgrade-path key at index cannot be empty", FirstBlank(self.upgrade_path) - 1)
    ELSE Ok(Unit)

validate(self) ==
    IF ~IsOk(ChainIdValidateLength(self.chain_id, 3, MaxChainIdLen))
    THEN Err("InvalidLength")
    ELSE IF self.trust_level = TrustThresholdZERO
    THEN ErrWith("InvalidTrustThreshold", "ClientState trust-level cannot be zero")
    ELSE IF ~IsOk(TendermintTrustThresholdFractionNew(self.trust_level.numerator,
                                                      self.trust_level.denominator))
    THEN Err("InvalidTendermintTrustThreshold")
    ELSE IF self.trusting_period <= 0
    THEN ErrWith("InvalidTrustThreshold", "ClientState trusting period must be greater than zero")
    ELSE IF self.unbonding_period <= 0
    THEN ErrWith("InvalidTrustThreshold", "ClientState unbonding period must be greater than zero")
    ELSE IF self.trusting_period >= self.unbonding_period
    THEN ErrWith("InvalidTrustThreshold", "ClientState trusting period must be smaller than unbonding period")
    ELSE IF self.max_clock_drift <= 0
    THEN ErrWith("InvalidMaxClockDrift", "ClientState max-clock-drift must be greater than zero")
    ELSE IF self.latest_height.revision_number # ChainIdRevisionNumber(self.chain_id)
    THEN ErrWith("InvalidLatestHeight", "ClientState latest-height revision number must match chain-id version")
    ELSE IF Len(self.proof_specs) = 0
    THEN ErrWith("Validation", "ClientState proof-specs cannot be empty")
    ELSE IF FirstBlank(self.upgrade_path) # 0
    THEN ErrAt("Validation", "ClientState upgrade-path key at index cannot be empty", FirstBlank(self.upgrade_path) - 1)
    ELSE Ok(Unit)

new(chain_id, trust_level, trusting_period, unbonding_period, max_clock_drift, latest_height, proof_specs, upgrade_path, allow_update) ==
    LET client_state == new_without_validation(chain_id, trust_level, trusting_period,
                            unbonding_period, max_clock_drift, latest_height,
                            proof_specs, upgrade_path, allow_update)
        v == validate(client_state)
    IN  IF IsOk(v) THEN Ok(client_state) ELSE v

with_header_taking_header_height(self, header) ==
    Ok([self EXCEPT !.latest_height = header.height])

with_header(self, header) ==
    Ok([self EXCEPT !.latest_height = HeightMax(header.height, self.latest_height)])

with_frozen_height(self, h) == [self EXCEPT !.frozen_height = Some(h)]

is_frozen(self) == IsSome(self.frozen_height)

zero_custom_fields(self) ==
    [self EXCEPT !.trusting_period = ZERO_DURATION,
                 !.trust_level = TrustThresholdZERO,
                 !.allow_update = AllowUpdate(FALSE, FALSE),
                 !.frozen_height = None,
                 !.max_clock_drift = ZERO_DURATION]

----------------------------------------------------------------------------
(* Wire forms.  A RawTmClientState carries optional sub-messages; an Any   *)
(* carries a type url and bytes, which either decode to a message          *)
(* (value = Some(message)) or do not (value = None).                       *)

TENDERMINT_CLIENT_STATE_TYPE_URL == "/ibc.lightclients.tendermint.v1.ClientState"
TENDERMINT_CONSENSUS_STATE_TYPE_URL == "/ibc.lightclients.tendermint.v1.ConsensusState"
TENDERMINT_HEADER_TYPE_URL == "/ibc.lightclients.tendermint.v1.Header"

AnyMsg(url, value) == [type_url |-> url, value |-> value]

\* Fraction -> TrustThreshold
TrustThresholdTryFromRaw(f) == TrustThresholdNew(f.numerator, f.denominator)

\* protobuf Duration -> core::time::Duration: a negative duration has no image
DurationTryFromRaw(d) == IF d < 0 THEN Err("NegativeDuration") ELSE Ok(d)

try_from_raw_accepting_frozen(raw) ==
    LET chain_id == ChainIdFromStr(raw.chain_id)
        trust_level == IF IsSome(raw.trust_level) THEN TrustThresholdTryFromRaw(Unwrap(raw.trust_level)) ELSE Err("None")
        trusting_period == IF IsSome(raw.trusting_period) THEN DurationTryFromRaw(Unwrap(raw.trusting_period)) ELSE Err("None")
        unbonding_period == IF IsSome(raw.unbonding_period) THEN DurationTryFromRaw(Unwrap(raw.unbonding_period)) ELSE Err("None")
        max_clock_drift == IF IsSome(raw.max_clock_drift) THEN DurationTryFromRaw(Unwrap(raw.max_clock_drift)) ELSE Err("None")
        latest_height == IF IsSome(raw.latest_height) THEN HeightTryFromRaw(Unwrap(raw.latest_height)) ELSE Err("None")
    IN  IF ~IsOk(chain_id) THEN Err("InvalidChainId")
        ELSE IF ~IsSome(raw.trust_level) THEN Err("MissingTrustingPeriod")
        ELSE IF ~IsOk(trust_level) THEN Err("InvalidTrustThreshold")
        ELSE IF ~IsOk(trusting_period) THEN Err("MissingTrustingPeriod")
        ELSE IF ~IsOk(unbonding_period) THEN Err("MissingUnbondingPeriod")
        ELSE IF ~IsOk(max_clock_drift) THEN Err("NegativeMaxClockDrift")
        ELSE IF ~IsOk(latest_height) THEN Err("MissingLatestHeight")
        ELSE Ok(new_without_validation(chain_id.val, trust_level.val, trusting_period.val, unbonding_period.val, max_clock_drift.val, latest_height.val, raw.proof_specs, raw.upgrade_path, AllowUpdate(raw.allow_update_after_expiry, raw.allow_update_after_misbehaviour)))

\* impl TryFrom<RawTmClientState> for ClientState
try_from_raw(raw) ==
    LET chain_id == ChainIdFromStr(raw.chain_id)
        trust_level == IF IsSome(raw.trust_level) THEN TrustThresholdTryFromRaw(Unwrap(raw.trust_level)) ELSE Err("None")
        trusting_period == IF IsSome(raw.trusting_period) THEN DurationTryFromRaw(Unwrap(raw.trusting_period)) ELSE Err("None")
        unbonding_period == IF IsSome(raw.unbonding_period) THEN DurationTryFromRaw(Unwrap(raw.unbonding_period)) ELSE Err("None")
        max_clock_drift == IF IsSome(raw.max_clock_drift) THEN DurationTryFromRaw(Unwrap(raw.max_clock_drift)) ELSE Err("None")
        latest_height == IF IsSome(raw.latest_height) THEN HeightTryFromRaw(Unwrap(raw.latest_height)) ELSE Err("None")
        \* raw.frozen_height.and_then(|h| Height::try_from(h).ok())
        frozen_height == IF IsSome(raw.frozen_height) /\ IsOk(HeightTryFromRaw(Unwrap(raw.frozen_height)))
                         THEN Some(HeightTryFromRaw(Unwrap(raw.frozen_height)).val) ELSE None
    IN  IF ~IsOk(chain_id) THEN Err("InvalidChainId")
        ELSE IF ~IsSome(raw.trust_level) THEN Err("MissingTrustingPeriod")
        ELSE IF ~IsOk(trust_level) THEN Err("InvalidTrustThreshold")
        ELSE IF ~IsOk(trusting_period) THEN Err("MissingTrustingPeriod")
        ELSE IF ~IsOk(unbonding_period) THEN Err("MissingUnbondingPeriod")
        ELSE IF ~IsOk(max_clock_drift) THEN Err("NegativeMaxClockDrift")
        ELSE IF ~IsOk(latest_height) THEN Err("MissingLatestHeight")
        ELSE IF IsSome(frozen_height) THEN Err("FrozenHeightNotAllowed")
        ELSE Ok(new_without_validation(chain_id.val, trust_level.val, trusting_period.val, unbonding_period.val, max_clock_drift.val, latest_height.val, raw.proof_specs, raw.upgrade_path, AllowUpdate(raw.allow_update_after_expiry, raw.allow_update_after_misbehaviour)))

\* impl From<ClientState> for RawTmClientState
into_raw(value) ==
    [chain_id |-> ChainIdToString(value.chain_id),
     trust_level |-> Some([numerator |-> value.trust_level.numerator, denominator |-> value.trust_level.denominator]),
     trusting_period |-> Some(value.trusting_period),
     unbonding_period |-> Some(value.unbonding_period),
     max_clock_drift |-> Some(value.max_clock_drift),
     frozen_height |-> Some(IF IsSome(value.frozen_height)
                            THEN HeightIntoRaw(Unwrap(value.frozen_height))
                            ELSE [revision_number |-> 0, revision_height |-> 0]),
     latest_height |-> Some(HeightIntoRaw(value.latest_height)),
     proof_specs |-> value.proof_specs,
     upgrade_path |-> value.upgrade_path,
     allow_update_after_expiry |-> value.allow_update.after_expiry,
     allow_update_after_misbehaviour |-> value.allow_update.after_misbehaviour]

\* impl TryFrom<Any> for ClientState
try_from_any(raw) ==
    IF raw.type_url = TENDERMINT_CLIENT_STATE_TYPE_URL
    THEN IF IsSome(raw.value) THEN try_from_raw(Unwrap(raw.value)) ELSE Err("Decode")
    ELSE Err("UnknownClientStateType")

\* impl From<ClientState> for Any
into_any(client_state) == AnyMsg(TENDERMINT_CLIENT_STATE_TYPE_URL, Some(into_raw(client_state)))

----------------------------------------------------------------------------
(* Consensus states and headers *)

TmConsensusState(root, timestamp, next_validators_hash) ==
    [root |-> root, timestamp |-> timestamp, next_validators_hash |-> next_validators_hash]

\* TmConsensusState::try_from(Any)
TmConsensusStateTryFromAny(any) ==
    IF any.type_url = TENDERMINT_CONSENSUS_STATE_TYPE_URL
    THEN IF IsSome(any.value) THEN Ok(Unwrap(any.value)) ELSE Err("Decode")
    ELSE Err("UnknownConsensusStateType")

\* TmHeader::try_from(Any)
TmHeaderTryFromAny(any) ==
    IF any.type_url = TENDERMINT_HEADER_TYPE_URL
    THEN IF IsSome(any.value) THEN Ok(Unwrap(any.value)) ELSE Err("Decode")
    ELSE Err("UnknownHeaderType")

\* TmConsensusState::from(header)
TmConsensusStateFromHeader(header) ==
    TmConsensusState(header.app_hash, header.time, header.next_validators_hash)

\* check_header_trusted_next_validator_set
check_header_against_own_next_validators(header, trusted_consensus_state) ==
    IF header.next_validators_hash = trusted_consensus_state.next_validators_hash
    THEN Ok(Unit)
    ELSE Err("HeaderVerificationFailure")

check_header_trusted_next_validator_set(header, trusted_consensus_state) ==
    IF header.trusted_next_validator_set_hash = trusted_consensus_state.next_validators_hash
    THEN Ok(Unit)
    ELSE Err("HeaderVerificationFailure")

----------------------------------------------------------------------------
(* The host context: the store of one client and the host clock.  Every    *)
(* context call is fallible; `fail` names the call that fails in an        *)
(* operation ("none": no call fails).                                      *)

EmptyCtx(now) ==
    [client_state |-> None,
     consensus_states |-> [h \in Heights |-> None],
     update_time |-> [h \in Heights |-> None],
     update_height |-> [h \in Heights |-> None],
     now |-> now]

host_timestamp(c) == c.now

\* the host produces one block per unit of time
host_height(c) == Height(0, c.now + 1)

consensus_state(c, h) == IF IsSome(c.consensus_states[h]) THEN Ok(Unwrap(c.consensus_states[h])) ELSE Err("ConsensusStateNotFound")

store_client_state(c, cs) == [c EXCEPT !.client_state = Some(cs)]
store_consensus_state(c, h, cons) == [c EXCEPT !.consensus_states[h] = Some(cons)]
store_update_time(c, h, t) == [c EXCEPT !.update_time[h] = Some(t)]
store_update_height(c, h, hh) == [c EXCEPT !.update_height[h] = Some(hh)]
delete_consensus_state(c, h) == [c EXCEPT !.consensus_states[h] = None]

Step(op, key, val) == [op |-> op, key |-> key, val |-> val]

ApplyStep(c, s) ==
    CASE s.op = "store_client_state" -> store_client_state(c, s.val)
      [] s.op = "store_consensus_state" -> store_consensus_state(c, s.key, s.val)
      [] s.op = "store_update_time" -> store_update_time(c, s.key, s.val)
      [] s.op = "store_update_height" -> store_update_height(c, s.key, s.val)

\* the store calls of an operation, each followed by `?`: the first failing
\* call returns its error and leaves what the earlier calls wrote
RECURSIVE RunSteps(_, _, _, _)
RunSteps(c, steps, fail, ret) ==
    IF steps = <<>> THEN [ctx |-> c, res |-> Ok(ret)]
    ELSE IF Head(steps).op = fail THEN [ctx |-> c, res |-> Err("ContextError")]
    ELSE RunSteps(ApplyStep(c, Head(steps)), Tail(steps), fail, ret)

duration_since_absolute(now, earlier) == IF earlier > now THEN Some(earlier - now) ELSE Some(now - earlier)

\* Timestamp::duration_since: None when `earlier` is in the future of `now`
duration_since(now, earlier) == IF earlier > now THEN None ELSE Some(now - earlier)

StoredHeights(c) == {h \in Heights : IsSome(c.consensus_states[h])}

\* the lowest stored height
OldestHeight(c) == CHOOSE h \in StoredHeights(c) : \A g \in StoredHeights(c) : HeightLE(h, g)

\* prune_oldest_consensus_state: removes the oldest stored consensus state
\* when it has fallen outside the unbonding period, and nothing else
prune_oldest_consensus_state(self, c) ==
    IF StoredHeights(c) = {} THEN c
    ELSE LET oldest == OldestHeight(c)
             elapsed == duration_since(host_timestamp(c), Unwrap(c.consensus_states[oldest]).timestamp)
         IN  IF IsSome(elapsed) /\ Unwrap(elapsed) > self.unbonding_period
             THEN delete_consensus_state(c, oldest)
             ELSE c

----------------------------------------------------------------------------
(* ClientStateValidation::status.  The result carries the context calls   *)
(* the evaluation made.                                                    *)

StatusResult(res, reads) == [res |-> res, reads |-> reads]

status_lookup_first(self, c, fail) ==
    LET cons == IF fail = "consensus_state" THEN Err("ContextError") ELSE consensus_state(c, self.latest_height)
    IN  IF ~IsOk(cons) THEN StatusResult(Ok("Expired"), <<"consensus_state">>)
        ELSE IF is_frozen(self) THEN StatusResult(Ok("Frozen"), <<"consensus_state">>)
        ELSE StatusResult(Ok("Active"), <<"consensus_state">>)

status_expiring_at_boundary(self, c, fail) ==
    IF is_frozen(self) THEN StatusResult(Ok("Frozen"), <<>>)
    ELSE LET cons == IF fail = "consensus_state" THEN Err("ContextError") ELSE consensus_state(c, self.latest_height)
         IN  IF ~IsOk(cons) THEN StatusResult(Ok("Expired"), <<"consensus_state">>)
             ELSE IF fail = "try_into" THEN StatusResult(Err("ClientSpecific"), <<"consensus_state">>)
             ELSE IF fail = "host_timestamp" THEN StatusResult(Err("ContextError"), <<"consensus_state", "host_timestamp">>)
             ELSE LET elapsed == duration_since(host_timestamp(c), cons.val.timestamp)
                  IN  IF IsSome(elapsed) /\ Unwrap(elapsed) >= self.trusting_period
                      THEN StatusResult(Ok("Expired"), <<"consensus_state", "host_timestamp">>)
                      ELSE StatusResult(Ok("Active"), <<"consensus_state", "host_timestamp">>)

status_failing_without_consensus_state(self, c, fail) ==
    IF is_frozen(self) THEN StatusResult(Ok("Frozen"), <<>>)
    ELSE LET cons == IF fail = "consensus_state" THEN Err("ContextError") ELSE consensus_state(c, self.latest_height)
         IN  IF ~IsOk(cons) THEN StatusResult(cons, <<"consensus_state">>)
             ELSE IF fail = "try_into" THEN StatusResult(Err("ClientSpecific"), <<"consensus_state">>)
             ELSE IF fail = "host_timestamp" THEN StatusResult(Err("ContextError"), <<"consensus_state", "host_timestamp">>)
             ELSE LET elapsed == duration_since(host_timestamp(c), cons.val.timestamp)
                  IN  IF IsSome(elapsed) /\ Unwrap(elapsed) > self.trusting_period
                      THEN StatusResult(Ok("Expired"), <<"consensus_state", "host_timestamp">>)
                      ELSE StatusResult(Ok("Active"), <<"consensus_state", "host_timestamp">>)

status_expired_just_past_boundary(self, c, fail) ==
    IF is_frozen(self) THEN StatusResult(Ok("Frozen"), <<>>)
    ELSE LET cons == IF fail = "consensus_state" THEN Err("ContextError") ELSE consensus_state(c, self.latest_height)
         IN  IF ~IsOk(cons) THEN StatusResult(Ok("Expired"), <<"consensus_state">>)
             ELSE IF fail = "try_into" THEN StatusResult(Err("ClientSpecific"), <<"consensus_state">>)
             ELSE IF fail = "host_timestamp" THEN StatusResult(Err("ContextError"), <<"consensus_state", "host_timestamp">>)
             ELSE LET elapsed == duration_since(host_timestamp(c), cons.val.timestamp)
                  IN  IF IsSome(elapsed) /\ Unwrap(elapsed) = self.trusting_period + 1
                      THEN StatusResult(Ok("Expired"), <<"consensus_state", "host_timestamp">>)
                      ELSE StatusResult(Ok("Active"), <<"consensus_state", "host_timestamp">>)

status(self, c, fail) ==
    IF is_frozen(self) THEN StatusResult(Ok("Frozen"), <<>>)
    ELSE LET cons == IF fail = "consensus_state" THEN Err("ContextError") ELSE consensus_state(c, self.latest_height)
         IN  IF ~IsOk(cons) THEN StatusResult(Ok("Expired"), <<"consensus_state">>)
             ELSE IF fail = "try_into" THEN StatusResult(Err("ClientSpecific"), <<"consensus_state">>)
             ELSE IF fail = "host_timestamp" THEN StatusResult(Err("ContextError"), <<"consensus_state", "host_timestamp">>)
             ELSE LET elapsed == duration_since(host_timestamp(c), cons.val.timestamp)
                  IN  IF IsSome(elapsed) /\ Unwrap(elapsed) > self.trusting_period
                      THEN StatusResult(Ok("Expired"), <<"consensus_state", "host_timestamp">>)
                      ELSE StatusResult(Ok("Active"), <<"consensus_state", "host_timestamp">>)

----------------------------------------------------------------------------
(* ClientStateExecution.  Each operation returns the context it leaves and *)
(* its result.                                                             *)

Outcome(c, res) == [ctx |-> c, res |-> res]

initialise_storing_before_decoding(self, c, consensus_state_any, fail) ==
    IF fail = "host_timestamp" \/ fail = "host_height" THEN Outcome(c, Err("ContextError"))
    ELSE LET tm_consensus_state == TmConsensusStateTryFromAny(consensus_state_any)
             c1 == store_client_state(c, self)
         IN  IF fail = "store_client_state" THEN Outcome(c, Err("ContextError"))
             ELSE IF ~IsOk(tm_consensus_state) THEN Outcome(c1, tm_consensus_state)
             ELSE RunSteps(c1, << Step("store_consensus_state", self.latest_height, tm_consensus_state.val),
                                  Step("store_update_time", self.latest_height, host_timestamp(c)),
                                  Step("store_update_height", self.latest_height, host_height(c)) >>, fail, Unit)

initialise(self, c, consensus_state_any, fail) ==
    IF fail = "host_timestamp" \/ fail = "host_height" THEN Outcome(c, Err("ContextError"))
    ELSE LET tm_consensus_state == TmConsensusStateTryFromAny(consensus_state_any)
         IN  IF ~IsOk(tm_consensus_state) THEN Outcome(c, tm_consensus_state)
             ELSE RunSteps(c, << Step("store_client_state", self.latest_height, self),
                                 Step("store_consensus_state", self.latest_height, tm_consensus_state.val),
                                 Step("store_update_time", self.latest_height, host_timestamp(c)),
                                 Step("store_update_height", self.latest_height, host_height(c)) >>, fail, Unit)

new_consensus_state_path_of_current_client(self, new_client_state) == self.latest_height

\* the key update_state stores the new consensus state under
new_consensus_state_path(self, new_client_state) == new_client_state.latest_height

update_state_refreshing_processed_time(self, c, header_any, fail) ==
    LET header == TmHeaderTryFromAny(header_any)
    IN  IF ~IsOk(header) THEN Outcome(c, header)
        ELSE IF fail = "prune" THEN Outcome(c, Err("ContextError"))
        ELSE LET header_height == header.val.height
                 c1 == prune_oldest_consensus_state(self, c)
                 maybe_existing_consensus_state == IF fail = "consensus_state" THEN Err("ContextError") ELSE consensus_state(c1, header_height)
             IN  IF IsOk(maybe_existing_consensus_state) THEN Outcome(store_update_time(c1, header_height, host_timestamp(c1)), Ok(<<header_height>>))
                 ELSE IF fail = "host_timestamp" \/ fail = "host_height" THEN Outcome(c1, Err("ContextError"))
                 ELSE LET new_consensus_state == TmConsensusStateFromHeader(header.val)
                          new_client_state == with_header(self, header.val).val
                      IN  RunSteps(c1, << Step("store_consensus_state", new_consensus_state_path(self, new_client_state), new_consensus_state),
                                          Step("store_client_state", header_height, new_client_state),
                                          Step("store_update_time", header_height, host_timestamp(c1)),
                                          Step("store_update_height", header_height, host_height(c1)) >>, fail, <<header_height>>)

update_state_pruning_twice(self, c, header_any, fail) ==
    LET header == TmHeaderTryFromAny(header_any)
    IN  IF ~IsOk(header) THEN Outcome(c, header)
        ELSE IF fail = "prune" THEN Outcome(c, Err("ContextError"))
        ELSE LET header_height == header.val.height
                 c1 == prune_oldest_consensus_state(self, prune_oldest_consensus_state(self, c))
                 maybe_existing_consensus_state == IF fail = "consensus_state" THEN Err("ContextError") ELSE consensus_state(c1, header_height)
             IN  IF IsOk(maybe_existing_consensus_state) THEN Outcome(c1, Ok(<<header_height>>))
                 ELSE IF fail = "host_timestamp" \/ fail = "host_height" THEN Outcome(c1, Err("ContextError"))
                 ELSE LET new_consensus_state == TmConsensusStateFromHeader(header.val)
                          new_client_state == with_header(self, header.val).val
                      IN  RunSteps(c1, << Step("store_consensus_state", new_consensus_state_path(self, new_client_state), new_consensus_state),
                                          Step("store_client_state", header_height, new_client_state),
                                          Step("store_update_time", header_height, host_timestamp(c1)),
                                          Step("store_update_height", header_height, host_height(c1)) >>, fail, <<header_height>>)

update_state(self, c, header_any, fail) ==
    LET header == TmHeaderTryFromAny(header_any)
    IN  IF ~IsOk(header) THEN Outcome(c, header)
        ELSE IF fail = "prune" THEN Outcome(c, Err("ContextError"))
        ELSE LET header_height == header.val.height
                 c1 == prune_oldest_consensus_state(self, c)
                 maybe_existing_consensus_state == IF fail = "consensus_state" THEN Err("ContextError") ELSE consensus_state(c1, header_height)
             IN  IF IsOk(maybe_existing_consensus_state) THEN Outcome(c1, Ok(<<header_height>>))
                 ELSE IF fail = "host_timestamp" \/ fail = "host_height" THEN Outcome(c1, Err("ContextError"))
                 ELSE LET new_consensus_state == TmConsensusStateFromHeader(header.val)
                          new_client_state == with_header(self, header.val).val
                      IN  RunSteps(c1, << Step("store_consensus_state", new_consensus_state_path(self, new_client_state), new_consensus_state),
                                          Step("store_client_state", header_height, new_client_state),
                                          Step("store_update_time", header_height, host_timestamp(c1)),
                                          Step("store_update_height", header_height, host_height(c1)) >>, fail, <<header_height>>)

update_state_on_misbehaviour_gated_by_flag(self, c, fail) ==
    LET frozen_client_state == IF self.allow_update.after_misbehaviour THEN self ELSE with_frozen_height(self, HeightMin(0))
    IN  RunSteps(c, << Step("store_client_state", self.latest_height, frozen_client_state) >>, fail, Unit)

update_state_on_misbehaviour_recording_update_time(self, c, fail) ==
    LET frozen_client_state == with_frozen_height(self, HeightMin(0))
    IN  RunSteps(c, << Step("store_client_state", self.latest_height, frozen_client_state),
                       Step("store_update_time", self.latest_height, host_timestamp(c)) >>, fail, Unit)

update_state_on_misbehaviour(self, c, fail) ==
    LET frozen_client_state == with_frozen_height(self, HeightMin(0))
    IN  RunSteps(c, << Step("store_client_state", self.latest_height, frozen_client_state) >>, fail, Unit)

SentinelRoot == "sentinel_root"

update_state_on_upgrade_keeping_submitted_periods(self, c, upgraded_client_state, upgraded_consensus_state, fail) ==
    LET decoded == try_from_any(upgraded_client_state)
        upgraded_tm_cons_state == TmConsensusStateTryFromAny(upgraded_consensus_state)
    IN  IF ~IsOk(decoded) THEN Outcome(c, decoded)
        ELSE IF ~IsOk(upgraded_tm_cons_state) THEN Outcome(c, upgraded_tm_cons_state)
        ELSE LET upgraded_tm_client_state == decoded.val
                 new_client_state == new(upgraded_tm_client_state.chain_id, self.trust_level, upgraded_tm_client_state.trusting_period, upgraded_tm_client_state.unbonding_period, self.max_clock_drift, upgraded_tm_client_state.latest_height, upgraded_tm_client_state.proof_specs, upgraded_tm_client_state.upgrade_path, self.allow_update)
             IN  IF ~IsOk(new_client_state) THEN Outcome(c, new_client_state)
                 ELSE IF fail = "host_timestamp" \/ fail = "host_height" THEN Outcome(c, Err("ContextError"))
                 ELSE LET new_consensus_state == TmConsensusState(SentinelRoot, upgraded_tm_cons_state.val.timestamp, upgraded_tm_cons_state.val.next_validators_hash)
                          latest_height == new_client_state.val.latest_height
                      IN  RunSteps(c, << Step("store_client_state", latest_height, new_client_state.val),
                                         Step("store_consensus_state", latest_height, new_consensus_state),
                                         Step("store_update_time", latest_height, host_timestamp(c)),
                                         Step("store_update_height", latest_height, host_height(c)) >>, fail, latest_height)

update_state_on_upgrade_keeping_submitted_root(self, c, upgraded_client_state, upgraded_consensus_state, fail) ==
    LET decoded == try_from_any(upgraded_client_state)
        upgraded_tm_cons_state == TmConsensusStateTryFromAny(upgraded_consensus_state)
    IN  IF ~IsOk(decoded) THEN Outcome(c, decoded)
        ELSE IF ~IsOk(upgraded_tm_cons_state) THEN Outcome(c, upgraded_tm_cons_state)
        ELSE LET upgraded_tm_client_state == zero_custom_fields(decoded.val)
                 new_client_state == new(upgraded_tm_client_state.chain_id, self.trust_level, self.trusting_period, upgraded_tm_client_state.unbonding_period, self.max_clock_drift, upgraded_tm_client_state.latest_height, upgraded_tm_client_state.proof_specs, upgraded_tm_client_state.upgrade_path, self.allow_update)
             IN  IF ~IsOk(new_client_state) THEN Outcome(c, new_client_state)
                 ELSE IF fail = "host_timestamp" \/ fail = "host_height" THEN Outcome(c, Err("ContextError"))
                 ELSE LET new_consensus_state == TmConsensusState(upgraded_tm_cons_state.val.root, upgraded_tm_cons_state.val.timestamp, upgraded_tm_cons_state.val.next_validators_hash)
                          latest_height == new_client_state.val.latest_height
                      IN  RunSteps(c, << Step("store_client_state", latest_height, new_client_state.val),
                                         Step("store_consensus_state", latest_height, new_consensus_state),
                                         Step("store_update_time", latest_height, host_timestamp(c)),
                                         Step("store_update_height", latest_height, host_height(c)) >>, fail, latest_height)

update_state_on_upgrade(self, c, upgraded_client_state, upgraded_consensus_state, fail) ==
    LET decoded == try_from_any(upgraded_client_state)
        upgraded_tm_cons_state == TmConsensusStateTryFromAny(upgraded_consensus_state)
    IN  IF ~IsOk(decoded) THEN Outcome(c, decoded)
        ELSE IF ~IsOk(upgraded_tm_cons_state) THEN Outcome(c, upgraded_tm_cons_state)
        ELSE LET upgraded_tm_client_state == zero_custom_fields(decoded.val)
                 new_client_state == new(upgraded_tm_client_state.chain_id, self.trust_level, self.trusting_period, upgraded_tm_client_state.unbonding_period, self.max_clock_drift, upgraded_tm_client_state.latest_height, upgraded_tm_client_state.proof_specs, upgraded_tm_client_state.upgrade_path, self.allow_update)
             IN  IF ~IsOk(new_client_state) THEN Outcome(c, new_client_state)
                 ELSE IF fail = "host_timestamp" \/ fail = "host_height" THEN Outcome(c, Err("ContextError"))
                 ELSE LET new_consensus_state == TmConsensusState(SentinelRoot, upgraded_tm_cons_state.val.timestamp, upgraded_tm_cons_state.val.next_validators_hash)
                          latest_height == new_client_state.val.latest_height
                      IN  RunSteps(c, << Step("store_client_state", latest_height, new_client_state.val),
                                         Step("store_consensus_state", latest_height, new_consensus_state),
                                         Step("store_update_time", latest_height, host_timestamp(c)),
                                         Step("store_update_height", latest_height, host_height(c)) >>, fail, latest_height)

----------------------------------------------------------------------------
(* ClientStateCommon: proof heights, membership proofs, the upgrade check. *)

validate_proof_height_rejecting_latest(self, proof_height) ==
    IF HeightLE(self.latest_height, proof_height) THEN Err("InvalidProofHeight") ELSE Ok(Unit)

validate_proof_height(self, proof_height) ==
    IF HeightLT(self.latest_height, proof_height) THEN Err("InvalidProofHeight") ELSE Ok(Unit)

\* what a Merkle proof proves: a value at a prefixed path under a root
Statement(prefix, path, value, root) == [prefix |-> prefix, path |-> path, value |-> value, root |-> root]

\* proof bytes: they decode to a Merkle proof of one statement, or do not decode
Proof(decodes, proves) == [decodes |-> decodes, proves |-> proves]

verify_membership_ignoring_value(self, prefix, proof, root, path, value) ==
    IF ~proof.decodes THEN Err("InvalidCommitmentProof")
    ELSE IF [proof.proves EXCEPT !.value = value] = Statement(prefix, path, value, root) THEN Ok(Unit)
    ELSE Err("Ics23Verification")

verify_membership(self, prefix, proof, root, path, value) ==
    IF ~proof.decodes THEN Err("InvalidCommitmentProof")
    ELSE IF proof.proves = Statement(prefix, path, value, root) THEN Ok(Unit)
    ELSE Err("Ics23Verification")

UpgradedClientStatePath(h) == <<"upgradedClient", h>>
UpgradedClientConsensusStatePath(h) == <<"upgradedConsState", h>>

verify_upgrade_client_accepting_equal_height(self, upgraded_client_state, upgraded_consensus_state, proof_upgrade_client, proof_upgrade_consensus_state, root) ==
    LET upgraded_tm_client_state == try_from_any(upgraded_client_state)
        upgraded_tm_cons_state == TmConsensusStateTryFromAny(upgraded_consensus_state)
    IN  IF ~IsOk(upgraded_tm_client_state) THEN upgraded_tm_client_state
        ELSE IF ~IsOk(upgraded_tm_cons_state) THEN upgraded_tm_cons_state
        ELSE IF HeightLT(upgraded_tm_client_state.val.latest_height, self.latest_height) THEN Err("LowUpgradeHeight")
        ELSE IF Len(self.upgrade_path) = 0 THEN Err("ClientSpecific")
        ELSE LET upgrade_path == SubSeq(self.upgrade_path, 1, Len(self.upgrade_path) - 1)
             IN  IF Len(upgrade_path) = 0 THEN Panic("index out of bounds")
                 ELSE IF upgrade_path[1] = "" THEN Err("InvalidCommitmentProof")
                 ELSE LET upgrade_path_prefix == upgrade_path[1]
                          last_height == self.latest_height.revision_height
                          client_proof == verify_membership(self, upgrade_path_prefix, proof_upgrade_client, root, UpgradedClientStatePath(last_height), upgraded_client_state)
                          cons_proof == verify_membership(self, upgrade_path_prefix, proof_upgrade_consensus_state, root, UpgradedClientConsensusStatePath(last_height), upgraded_consensus_state)
                      IN  IF ~IsOk(client_proof) THEN client_proof
                          ELSE IF ~IsOk(cons_proof) THEN cons_proof
                          ELSE Ok(Unit)

verify_upgrade_client_checking_path_first(self, upgraded_client_state, upgraded_consensus_state, proof_upgrade_client, proof_upgrade_consensus_state, root) ==
    LET upgraded_tm_client_state == try_from_any(upgraded_client_state)
        upgraded_tm_cons_state == TmConsensusStateTryFromAny(upgraded_consensus_state)
    IN  IF Len(self.upgrade_path) = 0 THEN Err("ClientSpecific")
        ELSE IF ~IsOk(upgraded_tm_client_state) THEN upgraded_tm_client_state
        ELSE IF ~IsOk(upgraded_tm_cons_state) THEN upgraded_tm_cons_state
        ELSE IF ~HeightLT(self.latest_height, upgraded_tm_client_state.val.latest_height) THEN Err("LowUpgradeHeight")
        ELSE IF Len(self.upgrade_path) = 0 THEN Err("ClientSpecific")
        ELSE LET upgrade_path == SubSeq(self.upgrade_path, 1, Len(self.upgrade_path) - 1)
             IN  IF Len(upgrade_path) = 0 THEN Panic("index out of bounds")
                 ELSE IF upgrade_path[1] = "" THEN Err("InvalidCommitmentProof")
                 ELSE LET upgrade_path_prefix == upgrade_path[1]
                          last_height == self.latest_height.revision_height
                          client_proof == verify_membership(self, upgrade_path_prefix, proof_upgrade_client, root, UpgradedClientStatePath(last_height), upgraded_client_state)
                          cons_proof == verify_membership(self, upgrade_path_prefix, proof_upgrade_consensus_state, root, UpgradedClientConsensusStatePath(last_height), upgraded_consensus_state)
                      IN  IF ~IsOk(client_proof) THEN client_proof
                          ELSE IF ~IsOk(cons_proof) THEN cons_proof
                          ELSE Ok(Unit)

verify_upgrade_client(self, upgraded_client_state, upgraded_consensus_state, proof_upgrade_client, proof_upgrade_consensus_state, root) ==
    LET upgraded_tm_client_state == try_from_any(upgraded_client_state)
        upgraded_tm_cons_state == TmConsensusStateTryFromAny(upgraded_consensus_state)
    IN  IF ~IsOk(upgraded_tm_client_state) THEN upgraded_tm_client_state
        ELSE IF ~IsOk(upgraded_tm_cons_state) THEN upgraded_tm_cons_state
        ELSE IF ~HeightLT(self.latest_height, upgraded_tm_client_state.val.latest_height) THEN Err("LowUpgradeHeight")
        ELSE IF Len(self.upgrade_path) = 0 THEN Err("ClientSpecific")
        ELSE LET upgrade_path == SubSeq(self.upgrade_path, 1, Len(self.upgrade_path) - 1)
             IN  IF Len(upgrade_path) = 0 THEN Panic("index out of bounds")
                 ELSE IF upgrade_path[1] = "" THEN Err("InvalidCommitmentProof")
                 ELSE LET upgrade_path_prefix == upgrade_path[1]
                          last_height == self.latest_height.revision_height
                          client_proof == verify_membership(self, upgrade_path_prefix, proof_upgrade_client, root, UpgradedClientStatePath(last_height), upgraded_client_state)
                          cons_proof == verify_membership(self, upgrade_path_prefix, proof_upgrade_consensus_state, root, UpgradedClientConsensusStatePath(last_height), upgraded_consensus_state)
                      IN  IF ~IsOk(client_proof) THEN client_proof
                          ELSE IF ~IsOk(cons_proof) THEN cons_proof
                          ELSE Ok(Unit)

\* the upgrade as the host runs it: the check, then the commit
upgrade_client(self, c, upgraded_client_state, upgraded_consensus_state, proof_upgrade_client, proof_upgrade_consensus_state, root, fail) ==
    LET verified == verify_upgrade_client(self, upgraded_client_state, upgraded_consensus_state, proof_upgrade_client, proof_upgrade_consensus_state, root)
    IN  IF ~IsOk(verified) THEN Outcome(c, verified)
        ELSE update_state_on_upgrade(self, c, upgraded_client_state, upgraded_consensus_state, fail)

----------------------------------------------------------------------------
(* Inputs *)

InputTimes == 0..1
AppHash == "app_hash"

DefaultProofSpecs == <<"iavl", "tendermint">>
DefaultUpgradePath == <<"upgrade", "upgradedIBCState">>

\* the client states a client is created from: results of ClientState::new
InitClientStates ==
    LET made == { new(ChainId(3, TRUE, 0), TrustThresholdONE_THIRD, 1, 2, 1, Height(0, 1), DefaultProofSpecs, DefaultUpgradePath, AllowUpdate(FALSE, FALSE)) }
    IN  { r.val : r \in { m \in made : IsOk(m) } }

ConsensusStateAnys ==
    { AnyMsg(TENDERMINT_CONSENSUS_STATE_TYPE_URL, Some(TmConsensusState(AppHash, 0, "v2"))),
      AnyMsg(TENDERMINT_CONSENSUS_STATE_TYPE_URL, None),
      AnyMsg(TENDERMINT_HEADER_TYPE_URL, None) }

Header(height, time, hash) ==
    [height |-> height, time |-> time, next_validators_hash |-> hash, app_hash |-> AppHash,
     trusted_height |-> height, trusted_next_validator_set_hash |-> hash]

HeaderAnys ==
    { AnyMsg(TENDERMINT_HEADER_TYPE_URL, Some(Header(h, t, "v1"))) : h \in Heights, t \in InputTimes }
      \cup { AnyMsg(TENDERMINT_HEADER_TYPE_URL, None), AnyMsg(TENDERMINT_CLIENT_STATE_TYPE_URL, None) }

ZeroRawHeight == [revision_number |-> 0, revision_height |-> 0]

\* the client state a counterparty chain commits to for an upgrade, as the relayer submits it
UpgradedRaw(unbonding_period, latest_height) ==
    into_raw(new_without_validation(ChainId(3, TRUE, 1), TrustThreshold(2, 3), 2, unbonding_period, 2, latest_height, DefaultProofSpecs, DefaultUpgradePath, AllowUpdate(TRUE, TRUE)))

UpgradedRaws ==
    { UpgradedRaw(3, h) : h \in Heights }
      \cup { UpgradedRaw(1, Height(1, 1)) }
      \cup { [UpgradedRaw(3, Height(1, 1)) EXCEPT !.frozen_height = Some(HeightIntoRaw(HeightMin(0)))] }

UpgradedClientStateAnys ==
    { AnyMsg(TENDERMINT_CLIENT_STATE_TYPE_URL, Some(raw)) : raw \in UpgradedRaws }
      \cup { AnyMsg(TENDERMINT_CLIENT_STATE_TYPE_URL, None), AnyMsg(TENDERMINT_HEADER_TYPE_URL, None) }

\* the proof a relayer submits for a statement: of it, of another value, or bytes that do not decode
MkProof(kind, statement) ==
    CASE kind = "valid" -> Proof(TRUE, statement)
      [] kind = "other" -> Proof(TRUE, [statement EXCEPT !.value = AnyMsg("another value", None)])
      [] kind = "garbage" -> Proof(FALSE, statement)

\* the submitted upgrades: each client state and each consensus state beside an
\* acceptable partner with valid proofs, and one acceptable pair with each kind of
\* failing proof
UpgradeInputs ==
    { <<ucs, AnyMsg(TENDERMINT_CONSENSUS_STATE_TYPE_URL, Some(TmConsensusState(AppHash, 0, "v2"))), "valid", "valid">> : ucs \in UpgradedClientStateAnys }
      \cup { <<AnyMsg(TENDERMINT_CLIENT_STATE_TYPE_URL, Some(UpgradedRaw(3, Height(1, 1)))), ucons, "valid", "valid">> : ucons \in ConsensusStateAnys }
      \cup { <<AnyMsg(TENDERMINT_CLIENT_STATE_TYPE_URL, Some(UpgradedRaw(3, Height(1, 1)))),
               AnyMsg(TENDERMINT_CONSENSUS_STATE_TYPE_URL, Some(TmConsensusState(AppHash, 0, "v2"))), k[1], k[2]>> :
               k \in {<<"other", "valid">>, <<"garbage", "valid">>, <<"valid", "other">>, <<"valid", "garbage">>} }

NoFail == "none"
Fails == {"none", "prune", "consensus_state", "host_timestamp", "host_height", "store_client_state", "store_consensus_state", "store_update_time", "store_update_height"}
StatusFails == {"none", "consensus_state", "try_into", "host_timestamp"}

----------------------------------------------------------------------------
(* The state machine: one client of one host.  The host runs one call at a *)
(* time, each on the client state it has stored.                           *)

\* what the history keeps of a call: its name and whether it succeeded, failed,
\* was cut short by a failing context call, or panicked
Call(op, res) == [op |-> op, kind |-> IF res.err = "ContextError" THEN "abort" ELSE res.kind]

Eval(fn, arg, out) == [fn |-> fn, arg |-> arg, out |-> out]
NoEval == Eval("none", <<>>, Ok(Unit))

Init ==
    /\ ctx = EmptyCtx(0)
    /\ last = Call("none", Ok(Unit))
    /\ call = NoEval

HasClient == IsSome(ctx.client_state)
Self == Unwrap(ctx.client_state)

Initialise(client_state, consensus_state_any) ==
    /\ ~HasClient
    /\ LET out == initialise(client_state, ctx, consensus_state_any, NoFail)
       IN  /\ ctx' = out.ctx
           /\ last' = Call("initialise", out.res)
    /\ UNCHANGED call

UpdateState(header_any) ==
    /\ HasClient
    /\ LET out == update_state(Self, ctx, header_any, NoFail)
       IN  /\ ctx' = out.ctx
           /\ last' = Call("update_state", out.res)
    /\ UNCHANGED call

UpdateStateOnMisbehaviour ==
    /\ HasClient
    /\ LET out == update_state_on_misbehaviour(Self, ctx, NoFail)
       IN  /\ ctx' = out.ctx
           /\ last' = Call("update_state_on_misbehaviour", out.res)
    /\ UNCHANGED call

\* the proofs a relayer submits with an upgrade of client `self`
UpgradeProof(self, kind, path, value) ==
    MkProof(kind, Statement(IF Len(self.upgrade_path) > 1 THEN self.upgrade_path[1] ELSE "", path, value, AppHash))

\* the outcome of the upgrade `u` of UpgradeInputs submitted for client `self`
UpgradeOutcome(self, c, u, fail) ==
    upgrade_client(self, c, u[1], u[2],
                   UpgradeProof(self, u[3], UpgradedClientStatePath(self.latest_height.revision_height), u[1]),
                   UpgradeProof(self, u[4], UpgradedClientConsensusStatePath(self.latest_height.revision_height), u[2]),
                   AppHash, fail)

UpgradeClient(u) ==
    /\ HasClient
    /\ LET out == UpgradeOutcome(Self, ctx, u, NoFail)
       IN  /\ ctx' = out.ctx
           /\ last' = Call("update_state_on_upgrade", out.res)
    /\ UNCHANGED call

\* the host produces a block: its clock advances
Tick ==
    /\ HasClient
    /\ ctx.now < MaxTime
    /\ ctx' = [ctx EXCEPT !.now = @ + 1]
    /\ last' = Call("tick", Ok(Unit))
    /\ UNCHANGED call

Next ==
    \/ \E client_state \in InitClientStates, cons \in ConsensusStateAnys : Initialise(client_state, cons)
    \/ \E header_any \in HeaderAnys : UpdateState(header_any)
    \/ UpdateStateOnMisbehaviour
    \/ \E u \in UpgradeInputs : UpgradeClient(u)
    \/ Tick

Spec == Init /\ [][Next]_vars

----------------------------------------------------------------------------
(* Properties of the state machine *)

HeaderOf(header_any) == TmHeaderTryFromAny(header_any).val
DecodesToHeader(header_any) == IsOk(TmHeaderTryFromAny(header_any))

StatusOf(c) == status(Unwrap(c.client_state), c, NoFail).res.val

\* C1: once the client is frozen it stays frozen: whatever call comes next, the
\* stored client state still has frozen_height set and status() is still Frozen.
C1_FrozenIsPermanent ==
    [][(HasClient /\ is_frozen(Self)) => (is_frozen(Unwrap(ctx'.client_state)) /\ StatusOf(ctx') = "Frozen")]_vars

\* C2: a consensus state stored at a height is never replaced by a different
\* value; it can only disappear by pruning (a height the call's pruning step
\* empties is not counted, whatever the call stores there afterwards).
C2_ConsensusStateImmutable ==
    [][HasClient =>
         \A h \in Heights :
            (/\ IsSome(ctx.consensus_states[h])
             /\ IsSome(prune_oldest_consensus_state(Self, ctx).consensus_states[h]))
            => (ctx'.consensus_states[h] = ctx.consensus_states[h] \/ ctx'.consensus_states[h] = None)]_vars

\* C3: when update_state succeeds for a header at height h and no consensus state
\* was stored at h before the call, the store then holds under h the consensus
\* state derived from the header and the call returns exactly [h].
C3_UpdateStoresAtHeaderHeight ==
    HasClient =>
      \A header_any \in HeaderAnys :
         LET out == update_state(Self, ctx, header_any, NoFail)
         IN  (/\ DecodesToHeader(header_any)
              /\ IsOk(out.res)
              /\ ~IsSome(ctx.consensus_states[HeaderOf(header_any).height]))
             => /\ out.ctx.consensus_states[HeaderOf(header_any).height] = Some(TmConsensusStateFromHeader(HeaderOf(header_any)))
                /\ out.res.val = <<HeaderOf(header_any).height>>

\* the second of two update_state calls in a row with the same header
SecondUpdate(header_any) ==
    LET first == update_state(Self, ctx, header_any, NoFail)
    IN  update_state(Unwrap(first.ctx.client_state), first.ctx, header_any, NoFail)

FirstUpdate(header_any) == update_state(Self, ctx, header_any, NoFail)

NothingToPrune(c) == prune_oldest_consensus_state(Unwrap(c.client_state), c) = c

FailingCalls ==
    IF HasClient
    THEN { [op |-> "update_state", fail |-> f, out |-> update_state(Self, ctx, header_any, f)] : header_any \in HeaderAnys, f \in Fails }
           \cup { [op |-> "update_state_on_misbehaviour", fail |-> f, out |-> update_state_on_misbehaviour(Self, ctx, f)] : f \in Fails }
           \cup { [op |-> "update_state_on_upgrade", fail |-> f, out |-> UpgradeOutcome(Self, ctx, u, f)] : u \in UpgradeInputs, f \in Fails }
    ELSE { [op |-> "initialise", fail |-> f, out |-> initialise(client_state, ctx, cons, f)] : client_state \in InitClientStates, cons \in ConsensusStateAnys, f \in Fails }

\* C5 as claimed: a call that returns an error, whatever its cause, leaves the
\* store as it was.
C5_FailuresLeaveStoreUntouched_AsClaimed ==
    \A x \in FailingCalls : ~IsOk(x.out.res) => x.out.ctx = ctx

\* the error comes from a step that precedes every store mutation of the call:
\* decoding, validation, the upgrade check, in initialise and
\* update_state_on_upgrade the host clock and height reads and the first store
\* call, and the one store call of update_state_on_misbehaviour
FailsBeforeMutation(x) ==
    \/ x.out.res.err # "ContextError"
    \/ x.op \in {"initialise", "update_state_on_upgrade"} /\ x.fail \in {"host_timestamp", "host_height", "store_client_state"}
    \/ x.op = "update_state_on_misbehaviour"

\* C5: a call that returns an error from decoding or validation, or, in
\* initialise, update_state_on_upgrade and update_state_on_misbehaviour, from a
\* host clock or height read or from its first store call, leaves the store as it
\* was.  (An error of a later context call leaves what the earlier steps of the
\* call pruned or wrote.)
C5_FailuresLeaveStoreUntouched ==
    \A x \in FailingCalls : (~IsOk(x.out.res) /\ FailsBeforeMutation(x)) => x.out.ctx = ctx

\* C5's case: a call fails in decoding or validation after the client has been updated
C5_Witness ==
    /\ HasClient
    /\ last = Call("update_state", Ok(Unit))
    /\ \E x \in FailingCalls : x.fail = NoFail /\ ~IsOk(x.out.res) /\ x.op = "update_state_on_upgrade" /\ x.out.res.err = "InvalidTrustThreshold"

\* the contexts status() may be evaluated in: the current one, with the consensus
\* state at the latest height present or absent, at any host time
StatusContexts ==
    { [c EXCEPT !.now = t] : t \in 0..MaxTime,
        c \in {ctx, delete_consensus_state(ctx, Self.latest_height), store_consensus_state(ctx, Self.latest_height, TmConsensusState(AppHash, 0, "v1"))} }

\* C10: whenever frozen_height is set, status() returns Frozen, whatever the
\* store holds at latest_height and whatever the host time is, and it makes no
\* context call: it reads neither the consensus state nor the host clock.
C10_FrozenPrecedence ==
    (HasClient /\ is_frozen(Self)) =>
       \A c \in StatusContexts, f \in StatusFails : status(Self, c, f) = StatusResult(Ok("Frozen"), <<>>)

\* C10's case: a frozen client that would be Expired were it not frozen
C10_Witness ==
    /\ HasClient
    /\ is_frozen(Self)
    /\ last.op = "update_state_on_misbehaviour"
    /\ status([Self EXCEPT !.frozen_height = None], ctx, NoFail).res = Ok("Expired")
    /\ status(Self, ctx, NoFail).res = Ok("Frozen")

----------------------------------------------------------------------------
(* ClientState::new on a grid of field values *)

NewChainIds == { ChainId(n, r, 0) : n \in {1, 2, 3, 29, 30, 48, 49, 50, 51}, r \in BOOLEAN }
NewTrustLevels == { TrustThresholdZERO, TrustThreshold(0, 1), TrustThreshold(1, 4), TrustThresholdONE_THIRD, TrustThreshold(2, 3) }
NewDurations == 0..2
NewUpgradePaths == { DefaultUpgradePath, <<"upgrade", "">>, <<" ", "upgradedIBCState">> }

NewArgs ==
    [chain_id : NewChainIds,
     trust_level : NewTrustLevels,
     trusting_period : NewDurations,
     unbonding_period : NewDurations,
     max_clock_drift : 0..1,
     latest_height : {Height(0, 1), Height(1, 1)},
     proof_specs : {<<>>, DefaultProofSpecs},
     upgrade_path : NewUpgradePaths,
     allow_update : {AllowUpdate(FALSE, FALSE)}]

NewOf(a) == new(a.chain_id, a.trust_level, a.trusting_period, a.unbonding_period, a.max_clock_drift, a.latest_height, a.proof_specs, a.upgrade_path, a.allow_update)

\* a caller constructs a client state
CallNew(a) ==
    /\ call' = Eval("new", a, NewOf(a))
    /\ UNCHANGED <<ctx, last>>

\* one construction per behaviour
NextNew == call = NoEval /\ \E a \in NewArgs : CallNew(a)

SpecNew == Init /\ [][NextNew]_vars

\* the eight checks of new() other than the chain-id length, as the claim lists them
ChecksAfterChainId(a) ==
    /\ a.trust_level # TrustThreshold(0, 0)
    /\ a.trust_level.numerator < a.trust_level.denominator
    /\ 3 * a.trust_level.numerator >= a.trust_level.denominator
    /\ a.trusting_period > 0
    /\ a.unbonding_period > 0
    /\ a.trusting_period < a.unbonding_period
    /\ a.max_clock_drift > 0
    /\ a.latest_height.revision_number = (IF a.chain_id.has_revision THEN a.chain_id.revision ELSE 0)
    /\ a.proof_specs # <<>>
    /\ \A i \in 1..Len(a.upgrade_path) : a.upgrade_path[i] \notin {"", " "}

\* the length in characters of the chain id "{name}-{revision}" or "{name}"
WholeIdLength(id) == IF id.has_revision THEN id.name_len + 2 ELSE id.name_len

\* C7 as claimed: new() returns a client state exactly when the nine checks pass,
\* the first being that the chain id is between 3 and MaxChainIdLen characters long.
C7_ValidationTotality_AsClaimed ==
    call.fn = "new" =>
       (IsOk(call.out) <=>
          /\ WholeIdLength(call.arg.chain_id) >= 3
          /\ WholeIdLength(call.arg.chain_id) <= MaxChainIdLen
          /\ ChecksAfterChainId(call.arg))

\* C7: new() returns a client state, the one made of the given fields, exactly
\* when the nine checks pass, where the chain-id check is the one of
\* ChainId::validate_length(3, MaxChainIdLen): an id with a revision suffix is
\* measured by its name alone, which must have between 1 and MaxChainIdLen - 21
\* characters; an id without one must have between 3 and MaxChainIdLen
\* characters.  Equal trusting and unbonding periods fail; a trusting period one
\* unit below the unbonding period passes that check.
C7_ValidationTotality ==
    call.fn = "new" =>
       /\ IsOk(call.out) <=>
            /\ IF call.arg.chain_id.has_revision
               THEN call.arg.chain_id.name_len >= 1 /\ call.arg.chain_id.name_len <= MaxChainIdLen - 21
               ELSE call.arg.chain_id.name_len >= 3 /\ call.arg.chain_id.name_len <= MaxChainIdLen
            /\ ChecksAfterChainId(call.arg)
       /\ IsOk(call.out) => /\ call.out.val.frozen_height = None
                            /\ \A f \in DOMAIN call.arg : call.out.val[f] = call.arg[f]
       /\ call.arg.trusting_period = call.arg.unbonding_period => ~IsOk(call.out)

\* C7's case: new() accepts a trusting period one unit below the unbonding period
C7_Witness ==
    /\ call.fn = "new"
    /\ IsOk(call.out)
    /\ call.arg.trusting_period + 1 = call.arg.unbonding_period
    /\ call.arg.chain_id = ChainId(29, TRUE, 0)

----------------------------------------------------------------------------
(* Decoding a client state from its wire forms, on a grid of raw values *)

RawChainIds == { [name_len |-> 0, has_revision |-> FALSE, revision |-> 0],
                 [name_len |-> 3, has_revision |-> TRUE, revision |-> 0],
                 [name_len |-> 30, has_revision |-> TRUE, revision |-> 0],
                 [name_len |-> 2, has_revision |-> FALSE, revision |-> 0] }
RawFractions == { None, Some([numerator |-> 0, denominator |-> 0]), Some([numerator |-> 1, denominator |-> 3]),
                  Some([numerator |-> 1, denominator |-> 4]), Some([numerator |-> 2, denominator |-> 1]) }
RawDurations == { None, Some(-1), Some(0), Some(1), Some(2) }
RawOptHeights == { None, Some([revision_number |-> 0, revision_height |-> 0]), Some([revision_number |-> 0, revision_height |-> 1]),
                   Some([revision_number |-> 1, revision_height |-> 0]), Some([revision_number |-> 1, revision_height |-> 1]) }
RawSpecsAndPaths == { <<DefaultProofSpecs, DefaultUpgradePath>>, <<<<>>, DefaultUpgradePath>>, <<DefaultProofSpecs, <<"upgrade", "">>>> }

RawTmClientState(chain_id, trust_level, trusting_period, unbonding_period, max_clock_drift, frozen_height, latest_height, sp) ==
    [chain_id |-> chain_id,
     trust_level |-> trust_level,
     trusting_period |-> trusting_period,
     unbonding_period |-> unbonding_period,
     max_clock_drift |-> max_clock_drift,
     frozen_height |-> frozen_height,
     latest_height |-> latest_height,
     proof_specs |-> sp[1],
     upgrade_path |-> sp[2],
     allow_update_after_expiry |-> FALSE,
     allow_update_after_misbehaviour |-> FALSE]

RawClientStates ==
    { RawTmClientState(c, tl, tp, up, d, fh, lh, sp) :
        c \in RawChainIds, tl \in RawFractions, tp \in RawDurations, up \in RawDurations \ {Some(-1)},
        d \in RawDurations \ {Some(2)}, fh \in RawOptHeights, lh \in RawOptHeights \ {Some([revision_number |-> 1, revision_height |-> 0])},
        sp \in RawSpecsAndPaths }

\* the envelopes of the grid: a few raw client states under the right type url,
\* undecodable bytes, and a client state under another type url
ClientStateAnys ==
    { AnyMsg(TENDERMINT_CLIENT_STATE_TYPE_URL, Some(raw)) : raw \in { r \in RawClientStates : r.chain_id.name_len = 3 /\ r.trust_level = Some([numerator |-> 1, denominator |-> 3]) /\ r.max_clock_drift = Some(1) } }
      \cup { AnyMsg(TENDERMINT_CLIENT_STATE_TYPE_URL, None) }
      \cup { AnyMsg(TENDERMINT_CONSENSUS_STATE_TYPE_URL, Some(raw)) : raw \in { r \in RawClientStates : r = into_raw(CHOOSE cs \in InitClientStates : TRUE) } }

\* a caller decodes a raw client state
CallTryFromRaw(raw) ==
    /\ call' = Eval("try_from_raw", raw, try_from_raw(raw))
    /\ UNCHANGED <<ctx, last>>

\* a caller decodes an Any
CallTryFromAny(any) ==
    /\ call' = Eval("try_from_any", any, try_from_any(any))
    /\ UNCHANGED <<ctx, last>>

\* one decoding per behaviour
NextDecode ==
    /\ call = NoEval
    /\ \/ \E raw \in RawClientStates : CallTryFromRaw(raw)
       \/ \E any \in ClientStateAnys : CallTryFromAny(any)

SpecDecode == Init /\ [][NextDecode]_vars

\* a decoding call that reached the fields of a raw client state, and that raw
DecodingRaw ==
    \/ call.fn = "try_from_raw"
    \/ call.fn = "try_from_any" /\ call.arg.type_url = TENDERMINT_CLIENT_STATE_TYPE_URL /\ call.arg.value # None

DecodedRaw == IF call.fn = "try_from_raw" THEN call.arg ELSE call.arg.value[1]

\* C6: decoding runs the checks of new(): a raw client state or Any that decodes
\* to a client state decodes to one that passes validate().
C6_DecodeValidates ==
    (DecodingRaw /\ IsOk(call.out)) => IsOk(validate(call.out.val))

\* C8: every client state the engine has stored, frozen or not, is what decoding
\* its raw form gives back, and what unwrapping its Any envelope gives back.
C8_RoundTrip ==
    HasClient =>
       /\ try_from_raw(into_raw(Self)) = Ok(Self)
       /\ try_from_any(into_any(Self)) = Ok(Self)

\* the raw frozen_height is set and is not (0, 0)
RawFrozenNonzero(raw) ==
    /\ raw.frozen_height # None
    /\ raw.frozen_height[1] # [revision_number |-> 0, revision_height |-> 0]

\* C9 as claimed: decoding a raw client state whose frozen_height is anything
\* other than (0, 0) fails with FrozenHeightNotAllowed.
C9_PreFrozenRejected_AsClaimed ==
    (DecodingRaw /\ RawFrozenNonzero(DecodedRaw)) => call.out = Err("FrozenHeightNotAllowed")

\* the fields extracted before frozen_height is looked at are all present and well formed
EarlierFieldsExtract(raw) ==
    /\ raw.chain_id.name_len > 0
    /\ raw.trust_level # None
    /\ LET f == raw.trust_level[1]
       IN  f.numerator <= f.denominator /\ (f.numerator = f.denominator => f.numerator = 0)
    /\ \A d \in {raw.trusting_period, raw.unbonding_period, raw.max_clock_drift} : d # None /\ d[1] >= 0
    /\ raw.latest_height # None
    /\ raw.latest_height[1].revision_height # 0

\* C9: decoding a raw client state whose frozen_height has a nonzero
\* revision_height always fails, and the error is FrozenHeightNotAllowed whenever
\* the fields extracted before it (chain id, trust level, the two periods, clock
\* drift, latest height) are present and well formed; otherwise the error is the
\* one of the first such field that is not.  A frozen_height of revision_height 0
\* is read as "not frozen" whatever its revision_number.
C9_PreFrozenRejected ==
    DecodingRaw =>
       /\ (DecodedRaw.frozen_height # None /\ DecodedRaw.frozen_height[1].revision_height # 0)
            => /\ ~IsOk(call.out)
               /\ EarlierFieldsExtract(DecodedRaw) <=> call.out = Err("FrozenHeightNotAllowed")
       /\ (DecodedRaw.frozen_height # None /\ DecodedRaw.frozen_height[1].revision_height = 0)
            => call.out.err # "FrozenHeightNotAllowed"

\* C9's case: an otherwise well-formed raw client state with frozen_height (0, 1) is rejected
C9_Witness ==
    /\ call.fn = "try_from_raw"
    /\ call.arg.frozen_height = Some([revision_number |-> 0, revision_height |-> 1])
    /\ EarlierFieldsExtract(call.arg)
    /\ call.out = Err("FrozenHeightNotAllowed")

----------------------------------------------------------------------------
(* Status and height properties of the stored client *)

\* the timestamp of the consensus state stored at the client's latest height
LatestTimestamp == ctx.consensus_states[Self.latest_height][1].timestamp

\* C11: for a client that is not frozen and has a consensus state with timestamp
\* T at its latest height, status() is Expired exactly when host time minus T is
\* greater than the trusting period P: Active at host time T + P, Expired at
\* T + P + 1.
C11_ExpiryBoundary ==
    (HasClient /\ Self.frozen_height = <<>> /\ ctx.consensus_states[Self.latest_height] # <<>>) =>
       \A now \in 0..(MaxTime + 1) :
          LET st == status(Self, [ctx EXCEPT !.now = now], NoFail).res
          IN  /\ st.kind = "ok"
              /\ st.val = IF now - LatestTimestamp > Self.trusting_period THEN "Expired" ELSE "Active"
              /\ now = LatestTimestamp + Self.trusting_period => st.val = "Active"
              /\ now = LatestTimestamp + Self.trusting_period + 1 => st.val = "Expired"

\* C11's case: the host clock stands one unit past T + P and the client, Active
\* one unit earlier, is Expired
C11_Witness ==
    /\ HasClient
    /\ Self.frozen_height = <<>>
    /\ ctx.consensus_states[Self.latest_height] # <<>>
    /\ ctx.now = LatestTimestamp + Self.trusting_period + 1
    /\ status(Self, ctx, NoFail).res = Ok("Expired")
    /\ status(Self, [ctx EXCEPT !.now = ctx.now - 1], NoFail).res = Ok("Active")

\* the headers that decode, as with_header receives them
DecodedHeaders == { HeaderOf(header_any) : header_any \in { a \in HeaderAnys : DecodesToHeader(a) } }

\* a is at or below b: lower revision number, or the same and a revision height not above
AtOrBelow(a, b) ==
    \/ a.revision_number < b.revision_number
    \/ a.revision_number = b.revision_number /\ a.revision_height <= b.revision_height

\* C12: with_header never lowers latest_height: the result's latest_height is
\* the greater of the previous latest_height and the header's height, a header at
\* or below latest_height leaves the client state as it is, and no other field
\* changes.
C12_MonotonicHeight ==
    HasClient =>
       \A header \in DecodedHeaders :
          LET r == with_header(Self, header)
          IN  /\ r.kind = "ok"
              /\ AtOrBelow(Self.latest_height, r.val.latest_height)
              /\ AtOrBelow(header.height, r.val.latest_height)
              /\ r.val.latest_height \in {Self.latest_height, header.height}
              /\ AtOrBelow(header.height, Self.latest_height) => r.val = Self
              /\ \A f \in DOMAIN Self \ {"latest_height"} : r.val[f] = Self[f]

\* C12's case: the client has been updated past its first height and a header
\* below its latest height leaves it as it is
C12_Witness ==
    /\ HasClient
    /\ last = Call("update_state", Ok(Unit))
    /\ Self.latest_height = Height(1, 1)
    /\ Header(Height(0, 2), 0, "v1") \in DecodedHeaders
    /\ with_header(Self, Header(Height(0, 2), 0, "v1")) = Ok(Self)

----------------------------------------------------------------------------
(* Upgrade properties of the stored client *)

\* verify_upgrade_client for the upgrade `u` of UpgradeInputs submitted for client `self`
VerifyOutcome(self, u) ==
    verify_upgrade_client(self, u[1], u[2],
                          UpgradeProof(self, u[3], UpgradedClientStatePath(self.latest_height.revision_height), u[1]),
                          UpgradeProof(self, u[4], UpgradedClientConsensusStatePath(self.latest_height.revision_height), u[2]),
                          AppHash)

\* the submitted client state of `u` is a client state message that names a latest height
ProposesHeight(u) ==
    /\ u[1].type_url = TENDERMINT_CLIENT_STATE_TYPE_URL
    /\ u[1].value # <<>>
    /\ u[1].value[1].latest_height # <<>>

ProposedHeight(u) == u[1].value[1].latest_height[1]

ChosenFields(tl, tp, d, ae, am) ==
    [trust_level |-> tl, trusting_period |-> tp, max_clock_drift |-> d, after_expiry |-> ae, after_misbehaviour |-> am]

ZeroedChosenFields == ChosenFields(<<[numerator |-> 0, denominator |-> 0]>>, <<0>>, <<0>>, FALSE, FALSE)

WellFormedChosenFields ==
    { ZeroedChosenFields,
      ChosenFields(<<[numerator |-> 2, denominator |-> 3]>>, <<2>>, <<2>>, TRUE, TRUE),
      ChosenFields(<<[numerator |-> 1, denominator |-> 4]>>, <<0>>, <<0>>, FALSE, FALSE),
      ChosenFields(<<[numerator |-> 0, denominator |-> 0]>>, <<3>>, <<0>>, FALSE, FALSE),
      ChosenFields(<<[numerator |-> 0, denominator |-> 0]>>, <<0>>, <<1>>, FALSE, TRUE) }

\* values of those fields that do not decode: an absent trust level, a fraction
\* above one, a negative period, an absent clock drift
MalformedChosenFields ==
    { ChosenFields(<<>>, <<0>>, <<0>>, FALSE, FALSE),
      ChosenFields(<<[numerator |-> 2, denominator |-> 1]>>, <<0>>, <<0>>, FALSE, FALSE),
      ChosenFields(<<[numerator |-> 0, denominator |-> 0]>>, <<-1>>, <<0>>, FALSE, FALSE),
      ChosenFields(<<[numerator |-> 0, denominator |-> 0]>>, <<0>>, <<>>, FALSE, FALSE) }

WithChosenFields(raw, v) ==
    [raw EXCEPT !.trust_level = v.trust_level, !.trusting_period = v.trusting_period, !.max_clock_drift = v.max_clock_drift,
                !.allow_update_after_expiry = v.after_expiry, !.allow_update_after_misbehaviour = v.after_misbehaviour]

GoodUpgradedConsensusState == [type_url |-> TENDERMINT_CONSENSUS_STATE_TYPE_URL, value |-> <<[root |-> AppHash, timestamp |-> 0, next_validators_hash |-> "v2"]>>]

\* update_state_on_upgrade of the stored client for the submitted raw client state
UpgradeCommit(raw) ==
    update_state_on_upgrade(Self, ctx, [type_url |-> TENDERMINT_CLIENT_STATE_TYPE_URL, value |-> <<raw>>], GoodUpgradedConsensusState, NoFail)

\* the client state the claim describes: chain-chosen fields of the submitted
\* state, client-chosen fields of the current client
Composed(self, raw) ==
    [chain_id |-> raw.chain_id,
     unbonding_period |-> raw.unbonding_period[1],
     latest_height |-> raw.latest_height[1],
     proof_specs |-> raw.proof_specs,
     upgrade_path |-> raw.upgrade_path,
     trust_level |-> self.trust_level,
     trusting_period |-> self.trusting_period,
     max_clock_drift |-> self.max_clock_drift,
     allow_update |-> self.allow_update,
     frozen_height |-> <<>>]

\* C15 as claimed: whatever the submitted upgraded client state carries in the
\* four client-chosen fields, the outcome of update_state_on_upgrade is the same.
C15_UpgradeComposition_AsClaimed ==
    HasClient =>
       \A raw \in UpgradedRaws, v \in WellFormedChosenFields \cup MalformedChosenFields :
          UpgradeCommit(WithChosenFields(raw, v)) = UpgradeCommit(WithChosenFields(raw, ZeroedChosenFields))

\* C15: update_state_on_upgrade first decodes the whole submitted client state,
\* so it fails when one of the four client-chosen fields is absent or malformed
\* in it; when they decode, their values have no effect: the client state
\* committed takes chain_id, unbonding_period, latest_height, proof_specs and
\* upgrade_path from the submitted state and trust_level, trusting_period,
\* max_clock_drift and allow_update from the current client, and it is committed
\* exactly when the submitted state is not frozen and the composed state passes
\* the nine construction checks; otherwise the call fails and stores nothing.
C15_UpgradeComposition ==
    HasClient =>
       /\ \A raw \in UpgradedRaws, v \in WellFormedChosenFields :
             LET out == UpgradeCommit(WithChosenFields(raw, v))
                 committed == raw.frozen_height \in {<<>>, <<ZeroRawHeight>>} /\ validate(Composed(Self, raw)).kind = "ok"
             IN  /\ out = UpgradeCommit(WithChosenFields(raw, ZeroedChosenFields))
                 /\ out.res.kind = IF committed THEN "ok" ELSE "err"
                 /\ committed => out.ctx.client_state = <<Composed(Self, raw)>>
                 /\ ~committed => out.ctx = ctx
       /\ \A raw \in UpgradedRaws, v \in MalformedChosenFields :
             LET out == UpgradeCommit(WithChosenFields(raw, v))
             IN  out.res.kind = "err" /\ out.ctx = ctx

\* C15's case: an upgrade was committed whose submitted client state carried a
\* trust level, trusting period, clock drift and allow_update of its own
C15_Witness ==
    /\ HasClient
    /\ last = Call("update_state_on_upgrade", Ok(Unit))
    /\ \E raw \in UpgradedRaws :
          /\ raw.trusting_period = <<2>> /\ raw.max_clock_drift = <<2>> /\ raw.allow_update_after_expiry
          /\ Self = Composed(CHOOSE cs \in InitClientStates : TRUE, raw)
          /\ Self.trusting_period = 1 /\ Self.max_clock_drift = 1 /\ Self.allow_update = AllowUpdate(FALSE, FALSE)


\* the nine checks of the claim, in its order: whether each fails for the arguments of new()
FailedChecks(a) ==
    << ~(IF a.chain_id.has_revision
         THEN a.chain_id.name_len >= 1 /\ a.chain_id.name_len <= MaxChainIdLen - 21
         ELSE a.chain_id.name_len >= 3 /\ a.chain_id.name_len <= MaxChainIdLen),
       \/ a.trust_level.numerator >= a.trust_level.denominator
       \/ 3 * a.trust_level.numerator < a.trust_level.denominator,
       a.trusting_period <= 0,
       a.unbonding_period <= 0,
       a.trusting_period >= a.unbonding_period,
       a.max_clock_drift <= 0,
       a.latest_height.revision_number # (IF a.chain_id.has_revision THEN a.chain_id.revision ELSE 0),
       a.proof_specs = <<>>,
       \E i \in 1..Len(a.upgrade_path) : a.upgrade_path[i] \in {"", " "} >>

\* the error that belongs to each of the nine checks
ErrorOfCheck(a) ==
    << [kind |-> "err", err |-> "InvalidLength", val |-> <<>>],
       IF a.trust_level = [numerator |-> 0, denominator |-> 0]
       THEN [kind |-> "err", err |-> "InvalidTrustThreshold", val |-> <<"ClientState trust-level cannot be zero">>]
       ELSE [kind |-> "err", err |-> "InvalidTendermintTrustThreshold", val |-> <<>>],
       [kind |-> "err", err |-> "InvalidTrustThreshold", val |-> <<"ClientState trusting period must be greater than zero">>],
       [kind |-> "err", err |-> "InvalidTrustThreshold", val |-> <<"ClientState unbonding period must be greater than zero">>],
       [kind |-> "err", err |-> "InvalidTrustThreshold", val |-> <<"ClientState trusting period must be smaller than unbonding period">>],
       [kind |-> "err", err |-> "InvalidMaxClockDrift", val |-> <<"ClientState max-clock-drift must be greater than zero">>],
       [kind |-> "err", err |-> "InvalidLatestHeight", val |-> <<"ClientState latest-height revision number must match chain-id version">>],
       [kind |-> "err", err |-> "Validation", val |-> <<"ClientState proof-specs cannot be empty">>],
       [kind |-> "err", err |-> "Validation",
        val |-> <<"ClientState upgrade-path key at index cannot be empty",
                  (CHOOSE i \in 1..(Len(a.upgrade_path) + 1) :
                      /\ i <= Len(a.upgrade_path) => a.upgrade_path[i] \in {"", " "}
                      /\ \A j \in 1..(i - 1) : a.upgrade_path[j] \notin {"", " "}) - 1>>] >>

\* C19: new() reports the first failing check in the order chain-id length,
\* trust level, trusting period > 0, unbonding period > 0, trusting < unbonding,
\* clock drift > 0, latest-height revision, proof specs non-empty, upgrade-path
\* segments non-blank: when several checks fail, the error returned is the one
\* of the earliest failing check.
C19_FirstFailureWins ==
    call.fn = "new" =>
       LET failed == { i \in 1..9 : FailedChecks(call.arg)[i] }
       IN  IF failed = {} THEN call.out.kind = "ok"
           ELSE call.out = ErrorOfCheck(call.arg)[CHOOSE i \in failed : \A j \in failed : i <= j]

\* C19's case: the trusting period, the unbonding period, the clock drift and the
\* proof specs all fail, and the error is the trusting period's
C19_Witness ==
    /\ call.fn = "new"
    /\ call.arg.trusting_period = 0 /\ call.arg.unbonding_period = 0 /\ call.arg.max_clock_drift = 0 /\ call.arg.proof_specs = <<>>
    /\ call.out.err = "InvalidTrustThreshold"
    /\ call.out.val = <<"ClientState trusting period must be greater than zero">>

(***************************************************************************)
(* The verification functions on their own: verify_upgrade_client,         *)
(* validate_proof_height and check_header_trusted_next_validator_set each  *)
(* called once on an argument of a grid.                                   *)
(***************************************************************************)

\* upgrade paths a client state may carry: none, one segment, the usual two, a
\* blank first segment, three segments
VerifyUpgradePaths ==
    { <<>>, <<"upgrade">>, DefaultUpgradePath, <<"", "upgradedIBCState">>, <<"upgrade", "upgradedIBCState", "x">> }

VerifyClient(latest_height, upgrade_path) ==
    new_without_validation(ChainId(3, TRUE, 0), TrustThresholdONE_THIRD, 1, 2, 1, latest_height, DefaultProofSpecs, upgrade_path, AllowUpdate(FALSE, FALSE))

VerifyClients == { VerifyClient(Height(0, h), p) : h \in 1..2, p \in VerifyUpgradePaths }

\* the submitted pairs of upgraded client state and upgraded consensus state
VerifyPairs == { <<u[1], u[2]>> : u \in UpgradeInputs }

StaleRoot == "stale_root"

\* proof bytes a relayer may submit beside the pair: bytes that do not decode, or
\* a proof of either value at either upgrade key of some height, under either
\* prefix and either root
VerifyProofs(pair) ==
    { Proof(FALSE, Statement("", <<>>, pair[1], AppHash)) }
      \cup { Proof(TRUE, Statement(prefix, path, value, root)) :
               prefix \in {"upgrade", "upgradedIBCState"},
               path \in { UpgradedClientStatePath(h) : h \in 1..MaxHeight } \cup { UpgradedClientConsensusStatePath(h) : h \in 1..MaxHeight },
               value \in {pair[1], pair[2]},
               root \in {AppHash, StaleRoot} }

CallVerifyUpgradeClient(self, pair, proof_upgrade_client, proof_upgrade_consensus_state) ==
    /\ call' = Eval("verify_upgrade_client",
                    [self |-> self, upgraded_client_state |-> pair[1], upgraded_consensus_state |-> pair[2],
                     proof_upgrade_client |-> proof_upgrade_client, proof_upgrade_consensus_state |-> proof_upgrade_consensus_state, root |-> AppHash],
                    verify_upgrade_client(self, pair[1], pair[2], proof_upgrade_client, proof_upgrade_consensus_state, AppHash))
    /\ UNCHANGED <<ctx, last>>

CallValidateProofHeight(latest_height, proof_height) ==
    /\ call' = Eval("validate_proof_height",
                    [self |-> VerifyClient(latest_height, DefaultUpgradePath), proof_height |-> proof_height],
                    validate_proof_height(VerifyClient(latest_height, DefaultUpgradePath), proof_height))
    /\ UNCHANGED <<ctx, last>>

ValidatorHashes == {"v1", "v2", "v3"}

\* headers as a relayer builds them: the trusted next validator set is the
\* relayer's, independent of the header's own next validators
VerifyHeaders ==
    { [Header(Height(0, 2), 1, own) EXCEPT !.trusted_height = Height(0, 1), !.trusted_next_validator_set_hash = trusted] :
         own \in ValidatorHashes, trusted \in ValidatorHashes }

CallCheckHeader(header, stored_hash) ==
    /\ call' = Eval("check_header_trusted_next_validator_set",
                    [header |-> header, trusted_consensus_state |-> TmConsensusState(AppHash, 0, stored_hash)],
                    check_header_trusted_next_validator_set(header, TmConsensusState(AppHash, 0, stored_hash)))
    /\ UNCHANGED <<ctx, last>>

\* one verification per behaviour
NextVerify ==
    /\ call = NoEval
    /\ \/ \E self \in VerifyClients, pair \in VerifyPairs :
             \E p1 \in VerifyProofs(pair), p2 \in VerifyProofs(pair) : CallVerifyUpgradeClient(self, pair, p1, p2)
       \/ \E l \in Heights, h \in Heights : CallValidateProofHeight(l, h)
       \/ \E header \in VerifyHeaders, stored_hash \in ValidatorHashes : CallCheckHeader(header, stored_hash)

SpecVerify == Init /\ [][NextVerify]_vars

\* the upgraded client state of a verify_upgrade_client call decodes, the
\* upgraded consensus state decodes, and the height check passes
PassesHeightCheck ==
    /\ call.arg.upgraded_client_state.type_url = TENDERMINT_CLIENT_STATE_TYPE_URL
    /\ call.arg.upgraded_client_state.value # <<>>
    /\ try_from_raw(call.arg.upgraded_client_state.value[1]).kind = "ok"
    /\ call.arg.upgraded_consensus_state.type_url = TENDERMINT_CONSENSUS_STATE_TYPE_URL
    /\ call.arg.upgraded_consensus_state.value # <<>>
    /\ ~AtOrBelow(call.arg.upgraded_client_state.value[1].latest_height[1], call.arg.self.latest_height)

\* C16: verify_upgrade_client never aborts: for a client state whose
\* upgrade_path is non-empty (one segment included) and an input that decodes
\* and passes the height check, it returns Ok or Err.
C16_VerifyUpgradeNeverAborts ==
    (call.fn = "verify_upgrade_client" /\ Len(call.arg.self.upgrade_path) >= 1 /\ PassesHeightCheck)
       => call.out.kind \in {"ok", "err"}

\* C17: check_header_trusted_next_validator_set returns Ok exactly when the
\* header's trusted next-validator-set hash equals the next_validators_hash of
\* the trusted consensus state, and a header-verification failure otherwise.
C17_TrustedValidatorsMatch ==
    call.fn = "check_header_trusted_next_validator_set" =>
       call.out = IF call.arg.header.trusted_next_validator_set_hash = call.arg.trusted_consensus_state.next_validators_hash
                  THEN [kind |-> "ok", err |-> "", val |-> Unit]
                  ELSE [kind |-> "err", err |-> "HeaderVerificationFailure", val |-> <<>>]

\* C17's case: a header rejected for its trusted next validator set although its
\* own next validators hash is the stored one
C17_Witness ==
    /\ call.fn = "check_header_trusted_next_validator_set"
    /\ call.arg.header.trusted_next_validator_set_hash # call.arg.trusted_consensus_state.next_validators_hash
    /\ call.arg.header.next_validators_hash = call.arg.trusted_consensus_state.next_validators_hash
    /\ call.out.err = "HeaderVerificationFailure"

\* C18: validate_proof_height(h) succeeds if and only if h is at or below the
\* client's latest_height in the Height order (revision number first, then
\* revision height); otherwise it returns InvalidProofHeight.
C18_ProofHeight ==
    call.fn = "validate_proof_height" =>
       call.out = IF AtOrBelow(call.arg.proof_height, call.arg.self.latest_height)
                  THEN [kind |-> "ok", err |-> "", val |-> Unit]
                  ELSE [kind |-> "err", err |-> "InvalidProofHeight", val |-> <<>>]

\* C18's case: a proof height of a lower revision but a greater revision height
\* than the latest height is accepted
C18_Witness ==
    /\ call.fn = "validate_proof_height"
    /\ call.arg.self.latest_height = [revision_number |-> 1, revision_height |-> 1]
    /\ call.arg.proof_height = [revision_number |-> 0, revision_height |-> 2]
    /\ call.out.kind = "ok"

\* the statement verify_upgrade_client requires a proof of, for the value at the key
Required(key, value) ==
    [prefix |-> call.arg.self.upgrade_path[1],
     path |-> <<key, call.arg.self.latest_height.revision_height>>,
     value |-> value,
     root |-> call.arg.root]

\* C20: verify_upgrade_client returns Ok only if both proofs hold against the
\* given root: the upgraded client state at the UpgradedClientState key and the
\* upgraded consensus state at the UpgradedClientConsensusState key, both keys
\* of the client's latest revision height, both under the prefix that is the
\* first segment of the client's upgrade path.
C20_BothProofsRequired ==
    (call.fn = "verify_upgrade_client" /\ call.out.kind = "ok") =>
       /\ call.arg.proof_upgrade_client.decodes
       /\ call.arg.proof_upgrade_client.proves = Required("upgradedClient", call.arg.upgraded_client_state)
       /\ call.arg.proof_upgrade_consensus_state.decodes
       /\ call.arg.proof_upgrade_consensus_state.proves = Required("upgradedConsState", call.arg.upgraded_consensus_state)

\* C20's case: an upgrade verified for a client at revision height 2 with a
\* three-segment upgrade path
C20_Witness ==
    /\ call.fn = "verify_upgrade_client"
    /\ call.out.kind = "ok"
    /\ Len(call.arg.self.upgrade_path) = 3
    /\ call.arg.self.latest_height.revision_height = 2


(***************************************************************************)
(* status() on its own: called once on a client state and a store of a     *)
(* grid, which includes stores without a consensus state at the latest     *)
(* height and consensus states with timestamps in the future.              *)
(***************************************************************************)

StatusTrustingPeriods == 0..2

StatusClients ==
    { [VerifyClient(Height(0, 2), DefaultUpgradePath) EXCEPT !.trusting_period = p, !.frozen_height = f] :
         p \in StatusTrustingPeriods, f \in {None, Some(HeightMin(0))} }

\* stores at host time `now`: the consensus state at each of two heights is
\* absent or has one of the timestamps
StatusStored == {None} \cup { Some(TmConsensusState(AppHash, t, "v1")) : t \in 0..MaxTime }

StatusStores ==
    { [EmptyCtx(now) EXCEPT !.consensus_states[Height(0, 1)] = older, !.consensus_states[Height(0, 2)] = latest] :
         now \in 0..MaxTime, older \in {None, Some(TmConsensusState(AppHash, 0, "v1"))}, latest \in StatusStored }

CallStatus(self, c, fail) ==
    /\ call' = Eval("status", [self |-> self, ctx |-> c, fail |-> fail], status(self, c, fail))
    /\ UNCHANGED <<ctx, last>>

\* one status query per behaviour
NextStatus == call = NoEval /\ \E self \in StatusClients, c \in StatusStores, fail \in StatusFails : CallStatus(self, c, fail)

SpecStatus == Init /\ [][NextStatus]_vars

\* the stored consensus state at the latest height of the queried client, as an Option
QueriedLatest == call.arg.ctx.consensus_states[call.arg.self.latest_height]

\* C21: for a non-frozen client, when the store has no consensus state at the
\* client's latest_height, status() returns Expired as a normal result, not an
\* error.
C21_MissingConsensusStateIsExpired ==
    (call.fn = "status" /\ call.arg.self.frozen_height = <<>> /\ QueriedLatest = <<>>)
       => call.out.res = [kind |-> "ok", err |-> "", val |-> "Expired"]

\* C21's case: the lookup at the latest height finds nothing although an older
\* consensus state is stored, and the host clock is at the time of that one
C21_Witness ==
    /\ call.fn = "status"
    /\ call.arg.self.frozen_height = <<>>
    /\ QueriedLatest = <<>>
    /\ call.arg.ctx.consensus_states[[revision_number |-> 0, revision_height |-> 1]] # <<>>
    /\ call.arg.ctx.now = 0
    /\ call.arg.fail = "none"
    /\ call.out.res.val = "Expired"

\* C22: for a non-frozen client whose consensus state at latest_height has a
\* timestamp later than the host time, status() returns Active, whatever the
\* trusting period.
C22_FutureTimestampIsActive ==
    (call.fn = "status" /\ call.arg.fail = "none" /\ call.arg.self.frozen_height = <<>> /\ QueriedLatest # <<>>)
       => (QueriedLatest[1].timestamp > call.arg.ctx.now => call.out.res = [kind |-> "ok", err |-> "", val |-> "Active"])

\* C22's case: the timestamp is ahead of the host clock by more than the trusting period
C22_Witness ==
    /\ call.fn = "status"
    /\ call.arg.fail = "none"
    /\ call.arg.self.frozen_height = <<>>
    /\ QueriedLatest # <<>>
    /\ QueriedLatest[1].timestamp - call.arg.ctx.now > call.arg.self.trusting_period
    /\ call.arg.self.trusting_period = 1
    /\ call.out.res.val = "Active"


\* status() of the stored client in store `c` is Expired and the client is not frozen
ExpiredIn(c) ==
    /\ c.client_state # <<>>
    /\ c.client_state[1].frozen_height = <<>>
    /\ status(c.client_state[1], c, NoFail).res = [kind |-> "ok", err |-> "", val |-> "Expired"]

\* a step that applies no update, misbehaviour or upgrade: the stored client
\* state and consensus states are the same and the host clock has not gone back
SameStoredState ==
    /\ ctx'.client_state = ctx.client_state
    /\ ctx'.consensus_states = ctx.consensus_states
    /\ ctx'.now >= ctx.now

\* C23: an expired, non-frozen client does not return to Active on its own:
\* once status() is Expired, it is Expired after every step that leaves the
\* stored state as it is and does not move the host clock backwards.
C23_ExpiredStaysExpired ==
    [][(ExpiredIn(ctx) /\ SameStoredState) => ExpiredIn(ctx')]_vars

\* C23's case: the host clock has advanced on a client that was already
\* expired, and the client is still expired
C23_Witness ==
    /\ last = Call("tick", Ok(Unit))
    /\ ctx.now >= 1
    /\ ExpiredIn([ctx EXCEPT !.now = @ - 1])
    /\ ExpiredIn(ctx)


\* C24: the frozen_height written by update_state_on_misbehaviour is the lowest
\* height marker of the client's current revision: it carries the revision
\* number of the client's latest_height.
C24_FrozenAtCurrentRevision ==
    HasClient =>
       LET out == update_state_on_misbehaviour(Self, ctx, NoFail)
       IN  /\ out.res.kind = "ok"
           /\ out.ctx.client_state[1].frozen_height # <<>>
           /\ out.ctx.client_state[1].frozen_height[1].revision_number = Self.latest_height.revision_number

\* C24's case: a client of revision 1 has been frozen
C24_Witness ==
    /\ HasClient
    /\ last = Call("update_state_on_misbehaviour", Ok(Unit))
    /\ Self.latest_height.revision_number = 1
    /\ Self.frozen_height # <<>>


\* upgraded consensus states a relayer may submit: each root, timestamp and
\* next validators hash
SubmittedConsensusStates ==
    { TmConsensusState(root, t, hash) : root \in {AppHash, StaleRoot, ""}, t \in {0, MaxTime}, hash \in {"v1", "v2"} }

C29_UpgradeSetsNoProcessedTime ==
    HasClient =>
       \A u \in UpgradeInputs :
          LET out == UpgradeOutcome(Self, ctx, u, NoFail)
          IN  out.res.kind = "ok" => out.ctx.update_time[out.res.val] = ctx.update_time[out.res.val]

\* C29's case: an upgrade was committed
C29_Witness ==
    /\ HasClient
    /\ last = Call("update_state_on_upgrade", Ok(Unit))
    /\ ctx.update_time[Self.latest_height] # <<>>


\* C26: verify_upgrade_client rejects the upgrade with an error when the
\* client's upgrade_path is empty, provided the submitted states decode and the
\* upgraded latest height is greater than the current one; the type check and
\* the height check come first: submitted states that do not decode, or a height
\* that is not greater, are reported as such even with an empty upgrade_path.
C26_EmptyUpgradePathRejected ==
    (call.fn = "verify_upgrade_client" /\ call.arg.self.upgrade_path = <<>>) =>
       /\ call.out.kind = "err"
       /\ PassesHeightCheck => call.out.err = "ClientSpecific"
       /\ ~PassesHeightCheck => call.out.err # "ClientSpecific"
       /\ (/\ call.arg.upgraded_client_state.type_url = TENDERMINT_CLIENT_STATE_TYPE_URL
           /\ call.arg.upgraded_client_state.value # <<>>
           /\ try_from_raw(call.arg.upgraded_client_state.value[1]).kind = "ok"
           /\ call.arg.upgraded_consensus_state.type_url = TENDERMINT_CONSENSUS_STATE_TYPE_URL
           /\ call.arg.upgraded_consensus_state.value # <<>>
           /\ AtOrBelow(call.arg.upgraded_client_state.value[1].latest_height[1], call.arg.self.latest_height))
          => call.out.err = "LowUpgradeHeight"

\* C26's case: a client without an upgrade path is given an upgrade that decodes,
\* is of a greater height and comes with the proofs a client with a path would need
C26_Witness ==
    /\ call.fn = "verify_upgrade_client"
    /\ call.arg.self.upgrade_path = <<>>
    /\ PassesHeightCheck
    /\ call.arg.proof_upgrade_client.decodes
    /\ call.arg.proof_upgrade_consensus_state.decodes
    /\ call.out.err = "ClientSpecific"


\* the store holds, at the height of the header, a consensus state with the header's content
StoredAlready(header) ==
    ctx.consensus_states[header.height] = <<[root |-> header.app_hash, timestamp |-> header.time, next_validators_hash |-> header.next_validators_hash]>>

\* update_state for `header` leaves the client state and, at the header's
\* height, the consensus state and the update records as they are, and returns
\* the header's height
LeftAsItWas(header, out) ==
    /\ out.res = [kind |-> "ok", err |-> "", val |-> <<header.height>>]
    /\ out.ctx.client_state = ctx.client_state
    /\ out.ctx.consensus_states[header.height] = ctx.consensus_states[header.height]
    /\ out.ctx.update_time[header.height] = ctx.update_time[header.height]
    /\ out.ctx.update_height[header.height] = ctx.update_height[header.height]

PrunesAt(h) == prune_oldest_consensus_state(Self, ctx).consensus_states[h] = <<>>

HeldIn(c) == { h \in Heights : c.consensus_states[h] # <<>> }

\* C28: an update_state call removes at most one consensus state from the
\* store: the number stored after the call is at least the number before minus
\* one, and a consensus state is removed only if it is the oldest one and
\* outside the unbonding period relative to the host time.
C28_AtMostOnePruned ==
    HasClient =>
       \A header_any \in HeaderAnys :
          LET out == update_state(Self, ctx, header_any, NoFail)
              removed == HeldIn(ctx) \ HeldIn(out.ctx)
          IN  /\ Cardinality(HeldIn(out.ctx)) >= Cardinality(HeldIn(ctx)) - 1
              /\ Cardinality(removed) <= 1
              /\ \A h \in removed :
                    /\ \A g \in HeldIn(ctx) : AtOrBelow(h, g)
                    /\ ctx.now - ctx.consensus_states[h][1].timestamp > Self.unbonding_period

\* C28's case: an update_state call has removed the oldest consensus state while
\* another one outside the unbonding period is still stored
C28_Witness ==
    /\ HasClient
    /\ last = Call("update_state", Ok(Unit))
    /\ \E h \in Heights : ctx.update_time[h] # <<>> /\ ctx.consensus_states[h] = <<>>
    /\ \E g \in HeldIn(ctx) : ctx.now - ctx.consensus_states[g][1].timestamp > Self.unbonding_period


\* the stored client state with other allow_update flags
WithFlags(flags) == [Self EXCEPT !.allow_update = flags]

AllFlags == { [after_expiry |-> e, after_misbehaviour |-> m] : e \in BOOLEAN, m \in BOOLEAN }

\* an outcome without the allow_update flags of the client state it stores
ApartFromFlags(out) ==
    [out EXCEPT !.ctx.client_state = IF @ = <<>> THEN @ ELSE <<[@[1] EXCEPT !.allow_update = [after_expiry |-> FALSE, after_misbehaviour |-> FALSE]]>>]

\* C30: the allow_update flags gate nothing: for client states that differ only
\* in allow_update, on the same store and the same input, update_state,
\* update_state_on_misbehaviour and status() return the same result and leave
\* the same store apart from the flags inside the stored client state.
C30_FlagsGateNothing ==
    HasClient =>
       \A flags \in AllFlags :
          /\ \A header_any \in HeaderAnys :
                ApartFromFlags(update_state(WithFlags(flags), ctx, header_any, NoFail)) = ApartFromFlags(update_state(Self, ctx, header_any, NoFail))
          /\ ApartFromFlags(update_state_on_misbehaviour(WithFlags(flags), ctx, NoFail)) = ApartFromFlags(update_state_on_misbehaviour(Self, ctx, NoFail))
          /\ status(WithFlags(flags), ctx, NoFail) = status(Self, ctx, NoFail)
          /\ update_state_on_misbehaviour(WithFlags(flags), ctx, NoFail).ctx.client_state[1].allow_update = flags

\* C30's case: the stored client is frozen and expired, and a client state with
\* both flags set is updated and frozen again on the same store as the one
\* without them
C30_Witness ==
    /\ HasClient
    /\ last = Call("update_state", Ok(Unit))
    /\ Self.frozen_height # <<>>
    /\ ctx.now - LatestTimestamp > Self.trusting_period
    /\ \E header_any \in HeaderAnys :
          LET out == update_state(WithFlags([after_expiry |-> TRUE, after_misbehaviour |-> TRUE]), ctx, header_any, NoFail)
          IN  /\ out.res.kind = "ok"
              /\ out.ctx.consensus_states # ctx.consensus_states
              /\ out.ctx.client_state[1].allow_update.after_expiry


\* C31: in every reachable state the stored client state satisfies the
\* construction invariants; in particular its latest_height has the revision
\* number of its chain id, also after update_state with a header of another
\* revision.
C31_StoredStateStaysValid ==
    HasClient =>
       /\ validate(Self).kind = "ok"
       /\ Self.latest_height.revision_number = (IF Self.chain_id.has_revision THEN Self.chain_id.revision ELSE 0)

\* C31's case: update_state has stored a header whose height is of revision 1
\* for a client whose chain id is of revision 0
C31_Witness ==
    /\ HasClient
    /\ last = Call("update_state", Ok(Unit))
    /\ Self.chain_id.revision = 0
    /\ Self.latest_height.revision_number = 1


C33_MisbehaviourWritesOnlyFrozenMarker ==
    HasClient =>
       LET out == update_state_on_misbehaviour(Self, ctx, NoFail)
       IN  /\ out.res.kind = "ok"
           /\ out.ctx.client_state # <<>>
           /\ out.ctx.client_state[1].frozen_height # <<>>
           /\ \A f \in DOMAIN Self \ {"frozen_height"} : out.ctx.client_state[1][f] = Self[f]
           /\ out.ctx.consensus_states = ctx.consensus_states
           /\ out.ctx.update_time = ctx.update_time
           /\ out.ctx.update_height = ctx.update_height
           /\ out.ctx.now = ctx.now

\* C33's case: a client with two stored consensus states has been frozen at a
\* host time later than every update record
C33_Witness ==
    /\ HasClient
    /\ last = Call("update_state_on_misbehaviour", Ok(Unit))
    /\ Self.frozen_height # <<>>
    /\ Cardinality({ h \in Heights : ctx.consensus_states[h] # <<>> }) >= 2
    /\ \A h \in Heights : ctx.update_time[h] # <<ctx.now>>

====
